---- MODULE Spec2Model ----
(***************************************************************************)
(* Navit: the session reducer (state/AppState) and the asynchronous        *)
(* directory / git-status / preview controller of App.tsx.                 *)
(*                                                                         *)
(* The single-threaded event loop runs one handler at a time; directory    *)
(* reads, git-status queries and preview loads are promises whose          *)
(* continuations run later, in any order.                                  *)
(***************************************************************************)
EXTENDS Integers, Sequences, FiniteSets, TLC

NULL == "null"            \* a null string slot
NO_GIT_INFO == [none |-> TRUE]   \* a null GitInfo slot
NO_CLIPBOARD == [empty |-> TRUE] \* a null ClipboardData slot
NO_CALLBACK == [unset |-> TRUE]  \* an undefined callback slot
NO_RESULT == [settled |-> FALSE] \* no executeCommand call has settled yet
REJECTED == [rejected |-> TRUE]  \* a promise that rejected
DIRECTORY == "<dir>"             \* what the disk holds at a directory's path

(***************************************************************************)
(* Bounds of the model.                                                    *)
(***************************************************************************)
MaxQueryLen == 1      \* longest search query typed
MaxInFlight == 2      \* promises pending at once (reads + git + previews)
TerminalRows == 9     \* stdout.rows of the terminal the session runs in

(***************************************************************************)
(* Names are sequences of characters, so that toLowerCase and includes are *)
(* computed rather than assumed.                                           *)
(***************************************************************************)
QueryChars == {"a", "B"}

toLowerCase(c) ==
    CASE c = "A" -> "a"
      [] c = "B" -> "b"
      [] c = "D" -> "d"
      [] c = "H" -> "h"
      [] c = "M" -> "m"
      [] c = "X" -> "x"
      [] c = "C" -> "c"
      [] c = "N" -> "n"
      [] c = "Q" -> "q"
      [] c = "R" -> "r"
      [] c = "S" -> "s"
      [] OTHER -> c

LowerName(s) == [i \in 1..Len(s) |-> toLowerCase(s[i])]

\* String.prototype.includes: q occurs in s as a contiguous substring.
includes(s, q) ==
    \E i \in 0..(Len(s) - Len(q)) : SubSeq(s, i + 1, i + Len(q)) = q

Queries == UNION {[1..n -> QueryChars] : n \in 0..MaxQueryLen}

(***************************************************************************)
(* State.  `state` is the AppState record the reducer owns.                *)
(***************************************************************************)
VARIABLES
    state,              \* AppState
    showTerminal,       \* AppContent's useState flag
    filteredIsEntries,  \* state.filteredEntries === state.entries (same array)
    target,             \* dirPath of the most recent loadDirectory call
    dirReads,           \* readDirectory promises pending, per path
    gitLoads,           \* getGitInfo promises pending, per path
    previewLoads,       \* getFilePreview promises pending, per file
    disk,               \* content of each regular file path, NULL when absent
    tasks,              \* paste / delete closures that await a file operation
    result,             \* what the last executeCommand call settled to
    localConfig,        \* what .navit.json of the start directory holds
    pressed,            \* the last key event useInput handled in normal mode
    ran,                \* the branch of the handler that event ran
    hiddenReads,        \* readDirectory(p, true) promises pending, per path
    addingBookmark,     \* AppContent's useState flag of the add-bookmark prompt
    bookmarkIndex,      \* BookmarksList's own selectedIndex
    store               \* config.store: the persisted configuration

(***************************************************************************)
(* The file tree the session browses.  DirItems is the order in which      *)
(* fs.readdir returns the items of a directory.                            *)
(***************************************************************************)
Dirs == {"/", "/A", "/B"}
FileNames == {<<"a">>, <<"b">>, <<"a", "b">>}
StartPath == "/"
HomeDir == "/A"

\* The characters of a name as one string.
RECURSIVE NameString(_)
NameString(n) == IF n = << >> THEN "" ELSE Head(n) \o NameString(Tail(n))

\* path.join(dir, name).
join(dir, n) ==
    IF dir = "/" THEN "/" \o NameString(n) ELSE dir \o "/" \o NameString(n)

\* Every path a regular file can have in the tree.
FilePaths == {join(d, n) : d \in Dirs, n \in FileNames}

\* The regular files present when the session starts; a file's content is
\* named after the path it was first seen at.
InitialDisk ==
    [f \in FilePaths |->
        IF f \in {"/ab", "/b", "/A/a", "/A/b"} THEN f ELSE NULL]

Item(n, p, d) == [name |-> n, path |-> p, isDirectory |-> d]

\* The slots of directory p, in the order fs.readdir returns them.
DirItems(p) ==
    CASE p = "/"  -> << Item(<<"b">>, "/b", FALSE),
                        Item(<<"B">>, "/B", TRUE),
                        Item(<<"a", "b">>, "/ab", FALSE),
                        Item(<<"A">>, "/A", TRUE),
                        Item(<<".", "a">>, "/.a", TRUE),
                        Item(<<"a">>, "/a", FALSE) >>
      [] p = "/A" -> << Item(<<".", "b">>, "/A/.b", TRUE),
                        Item(<<"b">>, "/A/b", FALSE),
                        Item(<<"a", "b">>, "/A/ab", FALSE),
                        Item(<<"a">>, "/A/a", FALSE) >>
      [] OTHER    -> << Item(<<"a", "b">>, "/B/ab", FALSE),
                        Item(<<"a">>, "/B/a", FALSE),
                        Item(<<"b">>, "/B/b", FALSE) >>

\* A directory whose read can fail with an I/O error (permissions change
\* under the session).
FailingDirs == {"/B"}

CharRank(c) == CASE c = "a" -> 1 [] c = "b" -> 2 [] OTHER -> 0

\* localeCompare of two lower-cased names: <0, 0 or >0.
RECURSIVE localeCompare(_, _)
localeCompare(s, t) ==
    IF s = << >> /\ t = << >> THEN 0
    ELSE IF s = << >> THEN -1
    ELSE IF t = << >> THEN 1
    ELSE IF CharRank(Head(s)) < CharRank(Head(t)) THEN -1
    ELSE IF CharRank(Head(s)) > CharRank(Head(t)) THEN 1
    ELSE localeCompare(Tail(s), Tail(t))

\* Mutation: the comparator looks at the names only.
compareEntries_NamesOnly(a, b) ==
    localeCompare(LowerName(a.name), LowerName(b.name))

\* The comparator of readDirectory's sort.
compareEntries(a, b) ==
    IF a.isDirectory /\ ~b.isDirectory THEN -1
    ELSE IF ~a.isDirectory /\ b.isDirectory THEN 1
    ELSE localeCompare(LowerName(a.name), LowerName(b.name))

\* Stable insertion of e into the sorted sequence s.
RECURSIVE InsertSorted(_, _)
InsertSorted(s, e) ==
    IF s = << >> THEN << e >>
    ELSE IF compareEntries(e, Head(s)) < 0 THEN << e >> \o s
    ELSE << Head(s) >> \o InsertSorted(Tail(s), e)

RECURSIVE SortEntries(_)
SortEntries(s) ==
    IF s = << >> THEN << >>
    ELSE InsertSorted(SortEntries(SubSeq(s, 1, Len(s) - 1)), s[Len(s)])

\* isHidden: the name starts with a dot.
isHidden(name) == name # << >> /\ Head(name) = "."

\* fs.readdir of p on the disk as it is now, without the hidden items
\* unless showHidden, then the sort; a slot is a directory when it is one
\* of Dirs or was made one by createDirectory.
readDirectory(p, showHidden) ==
    LET present == SelectSeq(DirItems(p),
                             LAMBDA e :
                                 /\ showHidden \/ ~isHidden(e.name)
                                 /\ e.isDirectory \/ disk[e.path] # NULL)
        items == [i \in 1..Len(present) |->
                    IF present[i].isDirectory THEN present[i]
                    ELSE [present[i] EXCEPT !.isDirectory =
                              (disk[present[i].path] = DIRECTORY)]]
    IN SortEntries(items)

Listing == [p \in Dirs, showHidden \in BOOLEAN |-> readDirectory(p, showHidden)]

ReadErrorMessage(p) == "Cannot read directory: " \o p

\* getGitInfo: one answer per directory.
getGitInfo(p) ==
    CASE p = "/A" -> [isRepo |-> TRUE, branch |-> "main", isClean |-> TRUE]
      [] p = "/B" -> [isRepo |-> TRUE, branch |-> "dev", isClean |-> FALSE]
      [] OTHER    -> [isRepo |-> FALSE, branch |-> "", isClean |-> FALSE]

\* getFilePreview: content is empty for a binary file, and for a file that
\* cannot be read.
getFilePreview(f) ==
    CASE disk[f] = "/ab"  -> [content |-> "text of /ab", isBinary |-> FALSE]
      [] disk[f] = "/A/a" -> [content |-> "text of /A/a", isBinary |-> FALSE]
      [] disk[f] = NULL   -> [content |-> "", isBinary |-> FALSE]
      [] disk[f] = ""     -> [content |-> "", isBinary |-> FALSE]
      [] disk[f] = DIRECTORY -> [content |-> "", isBinary |-> FALSE]
      [] OTHER            -> [content |-> "", isBinary |-> TRUE]

vars == << state, showTerminal, filteredIsEntries, target,
           dirReads, gitLoads, previewLoads, disk, tasks, result,
           localConfig, pressed, ran,
           hiddenReads, addingBookmark, bookmarkIndex, store >>

\* The local configuration and the last key the handler resolved.
keyVars == << localConfig, pressed, ran >>

\* The add-bookmark prompt, the bookmark list's highlight and the persisted
\* configuration.
bookmarkVars == << addingBookmark, bookmarkIndex, store >>

\* The file system, the file operations under way and the command result.
fileVars == << disk, tasks, result >>

Min(a, b) == IF a < b THEN a ELSE b
Max(a, b) == IF a > b THEN a ELSE b

Inc(f, x) == [f EXCEPT ![x] = @ + 1]
Dec(f, x) == [f EXCEPT ![x] = @ - 1]

RECURSIVE SumOver(_, _)
SumOver(f, S) ==
    IF S = {} THEN 0
    ELSE LET x == CHOOSE y \in S : TRUE IN f[x] + SumOver(f, S \ {x})

Pending(f) == SumOver(f, DOMAIN f)

\* The tasks that await the refresh of directory p, read with showHidden.
Awaiting(ts, p, showHidden) ==
    {i \in 1..Len(ts) :
        /\ ts[i].awaits = "refresh"
        /\ ts[i].dir = p
        /\ ts[i].showHidden = showHidden}

\* The tasks that await a file operation.
Operating(ts) ==
    {i \in 1..Len(ts) : ts[i].awaits \in {"exists", "operation"}}

\* Promises pending after the step; spawning steps stay within MaxInFlight.
WithinBound ==
    Pending(dirReads') + Pending(hiddenReads') + Pending(gitLoads')
        + Pending(previewLoads')
        + Cardinality(Operating(tasks')) <= MaxInFlight

(***************************************************************************)
(* appReducer, one operator per action type.                               *)
(***************************************************************************)
\* Mutation: the name is compared without lower-casing it.
FilterEntriesCaseSensitive(es, q) ==
    SelectSeq(es, LAMBDA e : includes(e.name, LowerName(q)))

\* The filter of SET_SEARCH_QUERY.
FilterEntries(es, q) ==
    SelectSeq(es, LAMBDA e : includes(LowerName(e.name), LowerName(q)))

\* Mutation: the scroll offset survives the navigation.
SET_PATH_KeepsScroll(s, path, es) ==
    [s EXCEPT !.currentPath = path,
              !.entries = es,
              !.filteredEntries = es,
              !.selectedIndex = 0,
              !.searchQuery = << >>,
              !.error = NULL]

SET_PATH(s, path, es) ==
    [s EXCEPT !.currentPath = path,
              !.entries = es,
              !.filteredEntries = es,
              !.selectedIndex = 0,
              !.scrollOffset = 0,
              !.searchQuery = << >>,
              !.error = NULL]

SET_SELECTED_INDEX(s, index) == [s EXCEPT !.selectedIndex = index]

SET_SCROLL_OFFSET(s, offset) == [s EXCEPT !.scrollOffset = offset]

\* Mutation: a marked path stays marked.
TOGGLE_FILE_SELECTION_OnlyAdds(s, path) ==
    [s EXCEPT !.selectedFiles = @ \cup {path}]

TOGGLE_FILE_SELECTION(s, path) ==
    [s EXCEPT !.selectedFiles =
        IF path \in @ THEN @ \ {path} ELSE @ \cup {path}]

SELECT_ALL(s) ==
    [s EXCEPT !.selectedFiles =
        {s.filteredEntries[i].path : i \in 1..Len(s.filteredEntries)}]

CLEAR_SELECTION(s) == [s EXCEPT !.selectedFiles = {}]

\* Mutation: filling the clipboard also drops the marked files.
SET_CLIPBOARD_ClearsSelection(s, clipboard) ==
    [s EXCEPT !.clipboard = clipboard, !.selectedFiles = {}]

SET_CLIPBOARD(s, clipboard) == [s EXCEPT !.clipboard = clipboard]

\* Mutation: changing mode also drops the marked files.
SET_MODE_ClearsSelection(s, m) ==
    [s EXCEPT !.mode = m,
              !.inputValue = << >>,
              !.selectedFiles = {},
              !.searchQuery = IF m = "normal" THEN << >> ELSE @]

SET_MODE(s, m) ==
    [s EXCEPT !.mode = m,
              !.inputValue = << >>,
              !.searchQuery = IF m = "normal" THEN << >> ELSE @]

SET_INPUT(s, value, prompt, callback) ==
    [s EXCEPT !.mode = "input",
              !.inputValue = value,
              !.inputPrompt = prompt,
              !.inputCallback = callback]

SET_CONFIRM(s, message, callback) ==
    [s EXCEPT !.mode = "confirm",
              !.confirmMessage = message,
              !.confirmCallback = callback]

\* Mutation: the empty query leaves the filtered list as it was.
SET_SEARCH_QUERY_KeepsFilter(s, q) ==
    [s EXCEPT !.searchQuery = q,
              !.filteredEntries =
                  IF q # << >> THEN FilterEntries(s.entries, q)
                  ELSE @,
              !.selectedIndex = 0]

SET_SEARCH_QUERY(s, q) ==
    [s EXCEPT !.searchQuery = q,
              !.filteredEntries =
                  IF q # << >> THEN FilterEntries(s.entries, q)
                  ELSE s.entries,
              !.selectedIndex = 0]

SET_GIT_INFO(s, info) == [s EXCEPT !.gitInfo = info]

\* Mutation: the loading flag also drops the marked files.
SET_LOADING_ClearsSelection(s, l) ==
    [s EXCEPT !.loading = l, !.selectedFiles = {}]

SET_LOADING(s, l) == [s EXCEPT !.loading = l]

\* Mutation: reporting an error also drops the marked files.
SET_ERROR_ClearsSelection(s, e) ==
    [s EXCEPT !.error = e, !.loading = FALSE, !.selectedFiles = {}]

SET_ERROR(s, e) == [s EXCEPT !.error = e, !.loading = FALSE]

SET_MESSAGE(s, m) == [s EXCEPT !.message = m]

TOGGLE_TERMINAL(s) == [s EXCEPT !.terminalOpen = ~@]

\* { ...state.config, ...action.config }.
SET_CONFIG(s, config) ==
    [s EXCEPT !.config =
        [k \in DOMAIN s.config |->
            IF k \in DOMAIN config THEN config[k] ELSE s.config[k]]]

\* The reducer also saves the new flag: see setConfig in KeyToggleHidden.
TOGGLE_HIDDEN(s) == [s EXCEPT !.config.showHidden = ~@]

SET_PREVIEW(s, content, isBinary) ==
    [s EXCEPT !.previewContent = content, !.previewIsBinary = isBinary]

createInitialState(startPath) ==
    [ currentPath     |-> startPath,
      entries         |-> << >>,
      selectedIndex   |-> 0,
      scrollOffset    |-> 0,
      selectedFiles   |-> {},
      clipboard       |-> NO_CLIPBOARD,
      mode            |-> "normal",
      inputValue      |-> << >>,
      inputPrompt     |-> "",
      inputCallback   |-> NO_CALLBACK,
      confirmMessage  |-> "",
      confirmCallback |-> NO_CALLBACK,
      searchQuery     |-> << >>,
      filteredEntries |-> << >>,
      gitInfo         |-> NO_GIT_INFO,
      config          |-> [showHidden |-> FALSE,
                           confirmDelete |-> TRUE,
                           bookmarks |-> << [name |-> "home",
                                             path |-> HomeDir] >>],
      loading         |-> TRUE,
      error           |-> NULL,
      message         |-> NULL,
      terminalOpen    |-> FALSE,
      previewContent  |-> "",
      previewIsBinary |-> FALSE ]

(***************************************************************************)
(* Key bindings: config.ts and utils/keybindings.ts.  A key string such as *)
(* "ctrl+c" is the sequence of its characters.                             *)
(***************************************************************************)
Binding(action, keys) == [action |-> action, keys |-> keys]

\* The default table, in the order of its declaration.
defaultKeybindings ==
    << Binding("up", << <<"k">>, <<"u", "p">> >>),
       Binding("down", << <<"j">>, <<"d", "o", "w", "n">> >>),
       Binding("parent", << <<"h">>,
                    <<"b", "a", "c", "k", "s", "p", "a", "c", "e">> >>),
       Binding("open", << <<"l">>, <<"r", "e", "t", "u", "r", "n">> >>),
       Binding("preview", << <<"r", "e", "t", "u", "r", "n">> >>),
       Binding("openExternal", << <<"o">> >>),
       Binding("search", << <<"/">> >>),
       Binding("deepSearch", << <<"c", "t", "r", "l", "+", "f">> >>),
       Binding("command", << <<":">> >>),
       Binding("help", << <<"?">> >>),
       Binding("toggleHidden", << <<".">>,
                    <<"c", "t", "r", "l", "+", "h">> >>),
       Binding("copy", << <<"c", "t", "r", "l", "+", "c">> >>),
       Binding("cut", << <<"c", "t", "r", "l", "+", "x">> >>),
       Binding("paste", << <<"c", "t", "r", "l", "+", "v">> >>),
       Binding("delete", << <<"d", "e", "l", "e", "t", "e">>,
                    <<"c", "t", "r", "l", "+", "d">> >>),
       Binding("select", << <<" ">> >>),
       Binding("selectAll", << <<"c", "t", "r", "l", "+", "a">> >>),
       Binding("quit", << <<"q">>, <<"c", "t", "r", "l", "+", "q">> >>),
       Binding("refresh", << <<"c", "t", "r", "l", "+", "r">> >>),
       Binding("terminal", << <<"c", "t", "r", "l", "+", "t">> >>),
       Binding("copyPath", << <<"y">> >>),
       Binding("bookmark", << <<"b">> >>),
       Binding("goToBookmark", << <<"g">> >>),
       Binding("newFile", << <<"n">> >>),
       Binding("newFolder", << <<"s", "h", "i", "f", "t", "+", "n">> >>),
       Binding("rename", << <<"s", "h", "i", "f", "t", "+", "r">> >>),
       Binding("home", << <<"~">> >>),
       Binding("pageUp", << <<"p", "a", "g", "e", "u", "p">> >>),
       Binding("pageDown",
                    << <<"p", "a", "g", "e", "d", "o", "w", "n">> >>) >>

\* The keybindings of the README's example of a configuration file.
ReadmeKeybindings == SubSeq(defaultKeybindings, 1, 4)

\* A table with the keys of one action replaced.
Rebound(table, action, keys) ==
    [i \in 1..Len(table) |->
        IF table[i].action = action THEN Binding(action, keys)
        ELSE table[i]]

\* config.store with nothing stored: defaultConfig.
globalConfig ==
    [showHidden |-> FALSE,
     confirmDelete |-> TRUE,
     bookmarks |-> << [name |-> "home", path |-> HomeDir] >>,
     keybindings |-> defaultKeybindings]

\* No .navit.json in the start directory.
NO_LOCAL == [missing |-> TRUE]

\* The .navit.json files of the start directory the model draws from: none,
\* one without keybindings, the README's partial table, a table where j is
\* bound to up and to down, a table that moves newFile to ctrl+n, and a
\* table written with capitals and with "Space".
LocalConfigs ==
    { NO_LOCAL,
      [confirmDelete |-> TRUE],
      [keybindings |-> ReadmeKeybindings],
      [keybindings |-> Rebound(defaultKeybindings, "up",
                               << <<"k">>, <<"u", "p">>, <<"j">> >>)],
      [keybindings |-> Rebound(defaultKeybindings, "newFile",
                               << <<"c", "t", "r", "l", "+", "n">> >>)],
      [keybindings |-> Rebound(Rebound(defaultKeybindings, "select",
                                       << <<"S", "p", "a", "c", "e">> >>),
                               "quit", << <<"C", "t", "r", "l", "+",
                                  "Q">> >>)] }

\* getConfig: { ...globalConfig, ...localConfig }.
getConfig(local) ==
    IF local = NO_LOCAL THEN globalConfig
    ELSE [k \in DOMAIN globalConfig \cup DOMAIN local |->
             IF k \in DOMAIN local THEN local[k]
             ELSE globalConfig[k]]

\* { ...bookmarks, [name]: path }: the bookmark table is an object, kept
\* here as its entries in insertion order; an existing key keeps its place.
withBookmark(bookmarks, name, path) ==
    IF \E i \in 1..Len(bookmarks) : bookmarks[i].name = name
    THEN [i \in 1..Len(bookmarks) |->
             IF bookmarks[i].name = name
             THEN [name |-> name, path |-> path]
             ELSE bookmarks[i]]
    ELSE Append(bookmarks, [name |-> name, path |-> path])

\* delete updated[name] on a copy of the table.
RECURSIVE withoutBookmark(_, _)
withoutBookmark(bookmarks, name) ==
    IF bookmarks = << >> THEN << >>
    ELSE IF Head(bookmarks).name = name
    THEN withoutBookmark(Tail(bookmarks), name)
    ELSE << Head(bookmarks) >> \o withoutBookmark(Tail(bookmarks), name)

\* setConfig(key, value): config.set on the persisted store.
setConfig(key, value) == [store EXCEPT ![key] = value]

\* state.config.keybindings: createInitialState takes the configuration
\* from getConfig(startPath), and no modelled action changes it.
keybindings == getConfig(localConfig).keybindings

\* keyStr.split('+').
RECURSIVE splitPlus(_)
splitPlus(s) ==
    LET plus == {i \in 1..Len(s) : s[i] = "+"}
    IN IF plus = {} THEN << s >>
       ELSE LET first == CHOOSE i \in plus : \A j \in plus : i <= j
            IN << SubSeq(s, 1, first - 1) >>
                   \o splitPlus(SubSeq(s, first + 1, Len(s)))

CtrlWords == {<<"c", "t", "r", "l">>, <<"c", "o", "n", "t", "r", "o", "l">>}
MetaWords == {<<"m", "e", "t", "a">>, <<"c", "m", "d">>, <<"c", "o", "m",
   "m", "a", "n", "d">>, <<"w", "i", "n">>}
ShiftWords == {<<"s", "h", "i", "f", "t">>}

\* parseKeyString: the modifiers named in the string, and for key the last
\* part that is no modifier.
parseKeyString(keyStr) ==
    LET parts == splitPlus(LowerName(keyStr))
        plain == {i \in 1..Len(parts) :
                      parts[i] \notin CtrlWords \cup MetaWords
                                         \cup ShiftWords}
    IN [key |-> IF plain = {} THEN << >>
                ELSE parts[CHOOSE i \in plain : \A j \in plain : j <= i],
        ctrl |-> \E i \in 1..Len(parts) : parts[i] \in CtrlWords,
        meta |-> \E i \in 1..Len(parts) : parts[i] \in MetaWords,
        shift |-> \E i \in 1..Len(parts) : parts[i] \in ShiftWords]

\* A key event of Ink: the input string and the Key object.  named is the
\* one flag of Key among upArrow ... pageUp that is set, NULL when none is.
InkKey(named, ctrl, meta, shift) ==
    [named |-> named, ctrl |-> ctrl, meta |-> meta, shift |-> shift]

KeyEvent(input, key) == [input |-> input, key |-> key]

NO_KEY == [pressed |-> FALSE]

\* The name normalizeInkKey gives to a named key.
keyNameOf(named) ==
    CASE named = "upArrow" -> <<"u", "p">>
      [] named = "downArrow" -> <<"d", "o", "w", "n">>
      [] named = "return" -> <<"r", "e", "t", "u", "r", "n">>
      [] named = "escape" -> <<"e", "s", "c", "a", "p", "e">>
      [] named = "backspace" -> <<"b", "a", "c", "k", "s", "p", "a", "c",
         "e">>
      [] named = "delete" -> <<"d", "e", "l", "e", "t", "e">>
      [] named = "tab" -> <<"t", "a", "b">>
      [] named = "pageDown" -> <<"p", "a", "g", "e", "d", "o", "w", "n">>
      [] named = "pageUp" -> <<"p", "a", "g", "e", "u", "p">>

normalizeInkKey(input, key) ==
    [key |-> IF key.named = NULL THEN LowerName(input)
             ELSE keyNameOf(key.named),
     ctrl |-> key.ctrl,
     meta |-> key.meta,
     shift |-> key.shift]

keysMatch(parsed, binding) ==
    IF binding.key \in {<<" ">>, <<"s", "p", "a", "c", "e">>}
    THEN IF parsed.key \in {<<" ">>, <<"s", "p", "a", "c", "e">>}
         THEN /\ parsed.ctrl = binding.ctrl
              /\ parsed.meta = binding.meta
              /\ parsed.shift = binding.shift
         ELSE FALSE
    ELSE /\ parsed.key = binding.key
         /\ parsed.ctrl = binding.ctrl
         /\ parsed.meta = binding.meta
         /\ parsed.shift = binding.shift

\* new KeyMatcher(keybindings): the Map of the parsed bindings, in the
\* order of the table's entries.
KeyMatcher(table) ==
    [i \in 1..Len(table) |->
        [action |-> table[i].action,
         bindings |-> [k \in 1..Len(table[i].keys) |->
                          parseKeyString(table[i].keys[k])]]]

\* Array.prototype.some with keysMatch.
someMatch(parsedInput, bindings) ==
    \E k \in 1..Len(bindings) : keysMatch(parsedInput, bindings[k])

\* KeyMatcher.matches.
matches(matcher, input, key, action) ==
    LET parsedInput == normalizeInkKey(input, key)
        entry == {i \in 1..Len(matcher) : matcher[i].action = action}
    IN IF entry = {} THEN FALSE
       ELSE \E i \in entry : someMatch(parsedInput, matcher[i].bindings)

\* KeyMatcher.getAction: the first action of the Map with a match.
getAction(matcher, input, key) ==
    LET parsedInput == normalizeInkKey(input, key)
        hits == {i \in 1..Len(matcher) :
                     someMatch(parsedInput, matcher[i].bindings)}
    IN IF hits = {} THEN NULL
       ELSE matcher[CHOOSE i \in hits : \A j \in hits : i <= j].action

\* The branches of the normal-mode handler of useInput, in the order of its
\* if statements.
HandlerBranches ==
    << "down", "up", "pageDown", "pageUp", "open", "parent", "openExternal",
       "search", "command", "help", "toggleHidden", "select", "selectAll",
          "copy", "cut", "paste", "delete", "copyPath", "refresh",
             "terminal", "home", "goToBookmark", "bookmark", "newFile",
                "newFolder", "rename", "quit" >>

\* The condition of the if statement of a branch.
branchTaken(matcher, input, key, action) ==
    CASE action = "pageDown" -> key.named = "pageDown"
      [] action = "pageUp" -> key.named = "pageUp"
      [] action = "home" ->
             matches(matcher, input, key, action) \/ input = <<"~">>
      [] action = "bookmark" ->
             matches(matcher, input, key, action) \/ input = <<"B">>
      [] action = "newFile" ->
             \/ matches(matcher, input, key, action)
             \/ input = <<"n">> /\ ~key.ctrl /\ ~key.shift
      [] action = "newFolder" ->
             \/ matches(matcher, input, key, action)
             \/ input = <<"N">>
             \/ input = <<"n">> /\ key.shift
      [] action = "rename" ->
             \/ matches(matcher, input, key, action)
             \/ input = <<"R">>
             \/ input = <<"r">> /\ key.shift
      [] OTHER -> matches(matcher, input, key, action)

\* The branch the handler runs for a key event in normal mode, NULL when it
\* falls through all of them.
useInput(matcher, input, key) ==
    LET taken == {i \in 1..Len(HandlerBranches) :
                      branchTaken(matcher, input, key, HandlerBranches[i])}
    IN IF taken = {} THEN NULL
       ELSE HandlerBranches[CHOOSE i \in taken : \A j \in taken : i <= j]

\* The key events the model draws from.  Ink reports a capital letter with
\* or without the shift flag, depending on the terminal.
PlainInputs ==
    {"j", "k", "h", "l", "o", "q", "y", "b", "g", "n", "r", "/", ":", "?",
       ".", " ", "~"}

CtrlInputs ==
    {"c", "x", "v", "d", "a", "q", "r", "t", "h", "f", "n"}

KeyEvents ==
    {KeyEvent(<< c >>, InkKey(NULL, FALSE, FALSE, FALSE)) : c \in PlainInputs}
        \cup
    {KeyEvent(<< c >>, InkKey(NULL, TRUE, FALSE, FALSE)) : c \in CtrlInputs}
        \cup
    {KeyEvent(<< c >>, InkKey(NULL, FALSE, FALSE, shift)) :
         c \in {"B", "N", "R"}, shift \in BOOLEAN}
        \cup
    {KeyEvent(<<"n">>, InkKey(NULL, FALSE, TRUE, FALSE))}
        \cup
    {KeyEvent(<< >>, InkKey(named, FALSE, FALSE, FALSE)) :
         named \in {"upArrow", "downArrow", "return", "escape", "backspace",
                    "delete", "tab", "pageDown", "pageUp"}}

(***************************************************************************)
(* AppContent: derived values and effects.                                 *)
(***************************************************************************)
mainContentHeight ==
    IF showTerminal THEN ((TerminalRows - 4) * 6) \div 10
    ELSE TerminalRows - 4

visibleHeight == mainContentHeight - 2

\* state.filteredEntries[state.selectedIndex] is defined.
HasSelected(s) ==
    s.selectedIndex >= 0 /\ s.selectedIndex < Len(s.filteredEntries)

Selected(s) == s.filteredEntries[s.selectedIndex + 1]

\* The render that follows a handler: the preview effect runs when
\* selectedIndex or the filteredEntries array changed (depsChanged), and
\* loadPreview answers a directory at once and a file by a promise.
AfterRender(s, depsChanged) ==
    IF depsChanged /\ HasSelected(s)
    THEN IF Selected(s).isDirectory
         THEN /\ state' = SET_PREVIEW(s, "", FALSE)
              /\ UNCHANGED previewLoads
         ELSE /\ state' = s
              /\ previewLoads' = Inc(previewLoads, Selected(s).path)
    ELSE /\ state' = s
         /\ UNCHANGED previewLoads

\* loadDirectory up to its await, called in session state s: SET_LOADING
\* is dispatched and the read is issued.  showHidden is the flag of the
\* render whose loadDirectory is called, which the callback closed over.
loadDirectory(s, dirPath, showHidden) ==
    /\ state' = SET_LOADING(s, TRUE)
    /\ IF showHidden
       THEN /\ hiddenReads' = Inc(hiddenReads, dirPath)
            /\ UNCHANGED dirReads
       ELSE /\ dirReads' = Inc(dirReads, dirPath)
            /\ UNCHANGED hiddenReads
    /\ target' = dirPath

\* Whatever surrounds the AppState record when the session starts: the
\* initial load is in flight.
InitAround ==
    /\ showTerminal = FALSE
    /\ filteredIsEntries = FALSE
    /\ target = StartPath
    /\ dirReads = [p \in Dirs |-> IF p = StartPath THEN 1 ELSE 0]
    /\ hiddenReads = [p \in Dirs |-> 0]
    /\ addingBookmark = FALSE
    /\ bookmarkIndex = 0
    /\ store = [showHidden |-> globalConfig.showHidden,
                bookmarks |-> globalConfig.bookmarks]
    /\ gitLoads = [p \in Dirs |-> 0]
    /\ previewLoads = [f \in FilePaths |-> 0]
    /\ disk = InitialDisk
    /\ tasks = << >>
    /\ result = NO_RESULT
    /\ pressed = NO_KEY
    /\ ran = NULL

InitSession ==
    /\ state = createInitialState(StartPath)
    /\ InitAround

\* The session starts without a .navit.json in the start directory.
Init ==
    /\ InitSession
    /\ localConfig = NO_LOCAL

\* The session starts with any of the local configurations.
InitKeys ==
    /\ InitSession
    /\ localConfig \in LocalConfigs

\* A .navit.json that turns the confirmation of deletes off.
UnconfirmedConfig == [confirmDelete |-> FALSE]

\* The session starts with confirmDelete unset: createInitialState takes
\* config from getConfig(startPath).
InitUnconfirmed ==
    /\ localConfig = UnconfirmedConfig
    /\ state = [createInitialState(StartPath) EXCEPT
                    !.config.confirmDelete =
                        getConfig(localConfig).confirmDelete]
    /\ InitAround

(***************************************************************************)
(* Completions of the promises.                                            *)
(***************************************************************************)
\* readDirectory(p) resolved: SET_PATH, getGitInfo issued, SET_LOADING false.
ReadDirectoryOk(p) ==
    /\ dirReads[p] > Cardinality(Awaiting(tasks, p, FALSE))
    /\ dirReads' = Dec(dirReads, p)
    /\ UNCHANGED hiddenReads
    /\ gitLoads' = Inc(gitLoads, p)
    /\ filteredIsEntries' = TRUE
    /\ AfterRender(SET_LOADING(SET_PATH(state, p, Listing[p, FALSE]), FALSE),
                   TRUE)
    /\ UNCHANGED << showTerminal, target >>
    /\ UNCHANGED fileVars
    /\ UNCHANGED keyVars
    /\ UNCHANGED bookmarkVars
    /\ WithinBound

\* readDirectory(p, true) resolved.
ReadHiddenOk(p) ==
    /\ hiddenReads[p] > Cardinality(Awaiting(tasks, p, TRUE))
    /\ hiddenReads' = Dec(hiddenReads, p)
    /\ gitLoads' = Inc(gitLoads, p)
    /\ filteredIsEntries' = TRUE
    /\ AfterRender(SET_LOADING(SET_PATH(state, p, Listing[p, TRUE]), FALSE),
                   TRUE)
    /\ UNCHANGED << showTerminal, target, dirReads >>
    /\ UNCHANGED fileVars
    /\ UNCHANGED keyVars
    /\ UNCHANGED bookmarkVars
    /\ WithinBound

\* readDirectory(p) rejected: SET_ERROR, SET_LOADING false.
ReadDirectoryFail(p) ==
    /\ dirReads[p] > Cardinality(Awaiting(tasks, p, FALSE))
    /\ p \in FailingDirs
    /\ dirReads' = Dec(dirReads, p)
    /\ UNCHANGED hiddenReads
    /\ state' = SET_LOADING(SET_ERROR(state, ReadErrorMessage(p)), FALSE)
    /\ UNCHANGED << showTerminal, filteredIsEntries, target, gitLoads,
                    previewLoads >>
    /\ UNCHANGED fileVars
    /\ UNCHANGED keyVars
    /\ UNCHANGED bookmarkVars

\* getGitInfo(p) resolved.
GitInfoResolved(p) ==
    /\ gitLoads[p] > 0
    /\ gitLoads' = Dec(gitLoads, p)
    /\ state' = SET_GIT_INFO(state, getGitInfo(p))
    /\ UNCHANGED << showTerminal, filteredIsEntries, target, dirReads,
                    hiddenReads, previewLoads >>
    /\ UNCHANGED fileVars
    /\ UNCHANGED keyVars
    /\ UNCHANGED bookmarkVars

\* getFilePreview(f) resolved.
PreviewResolved(f) ==
    /\ previewLoads[f] > 0
    /\ previewLoads' = Dec(previewLoads, f)
    /\ state' = SET_PREVIEW(state, getFilePreview(f).content,
                            getFilePreview(f).isBinary)
    /\ UNCHANGED << showTerminal, filteredIsEntries, target, dirReads,
                    hiddenReads, gitLoads >>
    /\ UNCHANGED fileVars
    /\ UNCHANGED keyVars
    /\ UNCHANGED bookmarkVars

(***************************************************************************)
(* useInput of AppContent: normal-mode keys.                               *)
(***************************************************************************)
NormalInput ==
    /\ state.mode \notin {"search", "command", "input", "confirm", "help",
                          "bookmarks"}
    /\ ~(showTerminal /\ state.terminalOpen)

\* A key event reaches the handler in normal mode: the branch it takes.
\* What the branches do is in the actions below, one for each.
KeyPress(input, key) ==
    /\ NormalInput
    /\ pressed' = KeyEvent(input, key)
    /\ ran' = useInput(KeyMatcher(keybindings), input, key)
    /\ UNCHANGED << state, showTerminal, filteredIsEntries, target, dirReads,
                    hiddenReads, gitLoads, previewLoads, localConfig >>
    /\ UNCHANGED fileVars
    /\ UNCHANGED bookmarkVars

KeyDown ==
    /\ NormalInput
    /\ LET newIndex == Min(state.selectedIndex + 1,
                           Len(state.filteredEntries) - 1)
           s1 == SET_SELECTED_INDEX(state, newIndex)
           s2 == IF newIndex >= state.scrollOffset + visibleHeight
                 THEN SET_SCROLL_OFFSET(s1, newIndex - visibleHeight + 1)
                 ELSE s1
       IN AfterRender(s2, newIndex # state.selectedIndex)
    /\ UNCHANGED << showTerminal, filteredIsEntries, target, dirReads,
                    hiddenReads, gitLoads >>
    /\ UNCHANGED fileVars
    /\ UNCHANGED keyVars
    /\ UNCHANGED bookmarkVars
    /\ WithinBound

KeyUp ==
    /\ NormalInput
    /\ LET newIndex == Max(state.selectedIndex - 1, 0)
           s1 == SET_SELECTED_INDEX(state, newIndex)
           s2 == IF newIndex < state.scrollOffset
                 THEN SET_SCROLL_OFFSET(s1, newIndex)
                 ELSE s1
       IN AfterRender(s2, newIndex # state.selectedIndex)
    /\ UNCHANGED << showTerminal, filteredIsEntries, target, dirReads,
                    hiddenReads, gitLoads >>
    /\ UNCHANGED fileVars
    /\ UNCHANGED keyVars
    /\ UNCHANGED bookmarkVars
    /\ WithinBound

KeyPageDown ==
    /\ NormalInput
    /\ LET newIndex == Min(state.selectedIndex + visibleHeight,
                           Len(state.filteredEntries) - 1)
           s1 == SET_SELECTED_INDEX(state, newIndex)
           s2 == SET_SCROLL_OFFSET(s1, Max(0, newIndex - visibleHeight + 1))
       IN AfterRender(s2, newIndex # state.selectedIndex)
    /\ UNCHANGED << showTerminal, filteredIsEntries, target, dirReads,
                    hiddenReads, gitLoads >>
    /\ UNCHANGED fileVars
    /\ UNCHANGED keyVars
    /\ UNCHANGED bookmarkVars
    /\ WithinBound

KeyPageUp ==
    /\ NormalInput
    /\ LET newIndex == Max(state.selectedIndex - visibleHeight, 0)
           s1 == SET_SELECTED_INDEX(state, newIndex)
           s2 == SET_SCROLL_OFFSET(s1, newIndex)
       IN AfterRender(s2, newIndex # state.selectedIndex)
    /\ UNCHANGED << showTerminal, filteredIsEntries, target, dirReads,
                    hiddenReads, gitLoads >>
    /\ UNCHANGED fileVars
    /\ UNCHANGED keyVars
    /\ UNCHANGED bookmarkVars
    /\ WithinBound

\* navigate(newPath) == loadDirectory(newPath).
navigate(newPath) ==
    /\ loadDirectory(state, newPath, state.config.showHidden)
    /\ UNCHANGED << showTerminal, filteredIsEntries, gitLoads, previewLoads >>
    /\ UNCHANGED fileVars
    /\ UNCHANGED keyVars
    /\ UNCHANGED bookmarkVars
    /\ WithinBound

KeyOpen ==
    /\ NormalInput
    /\ HasSelected(state)
    /\ Selected(state).isDirectory
    /\ navigate(Selected(state).path)

\* path.dirname on the tree above.
getParentDir(p) ==
    CASE p = "/A" -> "/"
      [] p = "/B" -> "/"
      [] OTHER    -> p

isRoot(p) == p = "/"

KeyParent ==
    /\ NormalInput
    /\ ~isRoot(state.currentPath)
    /\ navigate(getParentDir(state.currentPath))

KeyHome ==
    /\ NormalInput
    /\ navigate(HomeDir)

KeySearch ==
    /\ NormalInput
    /\ state' = SET_MODE(state, "search")
    /\ UNCHANGED << showTerminal, filteredIsEntries, target, dirReads,
                    hiddenReads, gitLoads, previewLoads >>
    /\ UNCHANGED fileVars
    /\ UNCHANGED keyVars
    /\ UNCHANGED bookmarkVars

KeySelect ==
    /\ NormalInput
    /\ HasSelected(state)
    /\ state' = TOGGLE_FILE_SELECTION(state, Selected(state).path)
    /\ UNCHANGED << showTerminal, filteredIsEntries, target, dirReads,
                    hiddenReads, gitLoads, previewLoads >>
    /\ UNCHANGED fileVars
    /\ UNCHANGED keyVars
    /\ UNCHANGED bookmarkVars

KeySelectAll ==
    /\ NormalInput
    /\ state' = SELECT_ALL(state)
    /\ UNCHANGED << showTerminal, filteredIsEntries, target, dirReads,
                    hiddenReads, gitLoads, previewLoads >>
    /\ UNCHANGED fileVars
    /\ UNCHANGED keyVars
    /\ UNCHANGED bookmarkVars

\* The entries a copy, cut or delete key acts on: the marked entries of the
\* displayed list when files are marked, else the entry under the cursor.
FilesToActOn(s) ==
    IF s.selectedFiles # {}
    THEN SelectSeq(s.filteredEntries, LAMBDA e : e.path \in s.selectedFiles)
    ELSE IF HasSelected(s) THEN << Selected(s) >> ELSE << >>

CountMessage(verb, n) == verb \o " " \o ToString(n) \o " file(s)"

\* The copy (operation = "copy") and cut (operation = "cut") keys.
KeyClipboard(operation) ==
    /\ NormalInput
    /\ LET files == FilesToActOn(state)
           verb == IF operation = "copy" THEN "Copied" ELSE "Cut"
       IN state' =
            IF Len(files) > 0
            THEN SET_MESSAGE(
                     SET_CLIPBOARD(state, [operation |-> operation,
                                           files |-> files]),
                     CountMessage(verb, Len(files)))
            ELSE state
    /\ UNCHANGED << showTerminal, filteredIsEntries, target, dirReads,
                    hiddenReads, gitLoads, previewLoads >>
    /\ UNCHANGED fileVars
    /\ UNCHANGED keyVars
    /\ UNCHANGED bookmarkVars

KeyCopy == KeyClipboard("copy")

KeyCut == KeyClipboard("cut")

\* The model follows file operations on regular files only.
RegularFilesOnly(files) ==
    \A i \in 1..Len(files) : ~files[i].isDirectory

\* The paste key: the closure captures the clipboard and the current path
\* and runs up to its first await.
KeyPaste ==
    /\ NormalInput
    /\ state.clipboard # NO_CLIPBOARD
    /\ RegularFilesOnly(state.clipboard.files)
    /\ tasks' = Append(tasks, [operation |-> state.clipboard.operation,
                               files |-> state.clipboard.files,
                               dir |-> state.currentPath,
                               name |-> << >>,
                               count |-> Len(state.clipboard.files),
                               awaits |-> "operation",
                               via |-> "key",
                               showHidden |-> state.config.showHidden])
    /\ UNCHANGED << state, showTerminal, filteredIsEntries, target, dirReads,
                    hiddenReads, gitLoads, previewLoads, disk, result >>
    /\ WithinBound
    /\ UNCHANGED keyVars
    /\ UNCHANGED bookmarkVars

ConfirmDeleteMessage(files) ==
    "Delete "
        \o (IF Len(files) = 1 THEN NameString(files[1].name)
            ELSE ToString(Len(files)) \o " files")
        \o "? This cannot be undone."

\* The delete key: asks for confirmation; the callback captures the files
\* and the current path.
KeyDelete ==
    /\ NormalInput
    /\ LET files == FilesToActOn(state)
       IN state' =
            IF Len(files) > 0 /\ state.config.confirmDelete
            THEN SET_CONFIRM(state, ConfirmDeleteMessage(files),
                             [files |-> files, dir |-> state.currentPath])
            ELSE state
    /\ UNCHANGED << showTerminal, filteredIsEntries, target, dirReads,
                    hiddenReads, gitLoads, previewLoads >>
    /\ UNCHANGED fileVars
    /\ UNCHANGED keyVars
    /\ UNCHANGED bookmarkVars

\* The refresh key: refresh() and a message.
KeyRefresh ==
    /\ NormalInput
    /\ loadDirectory(SET_MESSAGE(state, "Directory refreshed"),
                     state.currentPath, state.config.showHidden)
    /\ UNCHANGED << showTerminal, filteredIsEntries, gitLoads, previewLoads >>
    /\ UNCHANGED fileVars
    /\ UNCHANGED keyVars
    /\ UNCHANGED bookmarkVars
    /\ WithinBound

\* The toggle-hidden key: TOGGLE_HIDDEN is dispatched, its reducer case
\* saves the new flag, and loadDirectory of the render that handles the key
\* is called, which closed over the flag as it was before the key.
KeyToggleHidden ==
    /\ NormalInput
    /\ store' = setConfig("showHidden", ~state.config.showHidden)
    /\ loadDirectory(TOGGLE_HIDDEN(state), state.currentPath,
                     state.config.showHidden)
    /\ UNCHANGED << showTerminal, filteredIsEntries, gitLoads, previewLoads,
                    addingBookmark, bookmarkIndex >>
    /\ UNCHANGED fileVars
    /\ UNCHANGED keyVars
    /\ WithinBound

KeyCommand ==
    /\ NormalInput
    /\ state' = SET_MODE(state, "command")
    /\ UNCHANGED << showTerminal, filteredIsEntries, target, dirReads,
                    hiddenReads, gitLoads, previewLoads >>
    /\ UNCHANGED fileVars
    /\ UNCHANGED keyVars
    /\ UNCHANGED bookmarkVars

KeyHelp ==
    /\ NormalInput
    /\ state' = SET_MODE(state, "help")
    /\ UNCHANGED << showTerminal, filteredIsEntries, target, dirReads,
                    hiddenReads, gitLoads, previewLoads >>
    /\ UNCHANGED fileVars
    /\ UNCHANGED keyVars
    /\ UNCHANGED bookmarkVars

\* The go-to-bookmark key: BookmarksList is mounted, its highlight on the
\* first bookmark.
KeyGoToBookmark ==
    /\ NormalInput
    /\ state' = SET_MODE(state, "bookmarks")
    /\ bookmarkIndex' = 0
    /\ UNCHANGED << showTerminal, filteredIsEntries, target, dirReads,
                    hiddenReads, gitLoads, previewLoads >>
    /\ UNCHANGED fileVars
    /\ UNCHANGED keyVars
    /\ UNCHANGED << addingBookmark, store >>

\* The add-bookmark key (b or B): setAddingBookmark(true).
KeyBookmark ==
    /\ NormalInput
    /\ addingBookmark' = TRUE
    /\ UNCHANGED << state, showTerminal, filteredIsEntries, target, dirReads,
                    hiddenReads, gitLoads, previewLoads >>
    /\ UNCHANGED fileVars
    /\ UNCHANGED keyVars
    /\ UNCHANGED << bookmarkIndex, store >>

NO_ENTRY == [none |-> TRUE]      \* no entry captured

\* The new-file key: a text prompt whose callback captures the current path.
KeyNewFile ==
    /\ NormalInput
    /\ state' = SET_INPUT(state, << >>, "New file name:",
                          [kind |-> "newFile", dir |-> state.currentPath,
                           current |-> NO_ENTRY])
    /\ UNCHANGED << showTerminal, filteredIsEntries, target, dirReads,
                    hiddenReads, gitLoads, previewLoads >>
    /\ UNCHANGED fileVars
    /\ UNCHANGED keyVars
    /\ UNCHANGED bookmarkVars

\* The new-folder key.
KeyNewFolder ==
    /\ NormalInput
    /\ state' = SET_INPUT(state, << >>, "New folder name:",
                          [kind |-> "newFolder", dir |-> state.currentPath,
                           current |-> NO_ENTRY])
    /\ UNCHANGED << showTerminal, filteredIsEntries, target, dirReads,
                    hiddenReads, gitLoads, previewLoads >>
    /\ UNCHANGED fileVars
    /\ UNCHANGED keyVars
    /\ UNCHANGED bookmarkVars

\* The rename key: the prompt starts with the name of the entry under the
\* cursor, and the callback captures that entry and the current path.
KeyRename ==
    /\ NormalInput
    /\ state' =
          IF HasSelected(state)
          THEN SET_INPUT(state, Selected(state).name, "Rename to:",
                         [kind |-> "rename", dir |-> state.currentPath,
                          current |-> Selected(state)])
          ELSE state
    /\ UNCHANGED << showTerminal, filteredIsEntries, target, dirReads,
                    hiddenReads, gitLoads, previewLoads >>
    /\ UNCHANGED fileVars
    /\ UNCHANGED keyVars
    /\ UNCHANGED bookmarkVars

KeyTerminal ==
    /\ NormalInput
    /\ showTerminal' = ~showTerminal
    /\ state' = TOGGLE_TERMINAL(state)
    /\ UNCHANGED << filteredIsEntries, target, dirReads, hiddenReads, gitLoads,
                    previewLoads >>
    /\ UNCHANGED fileVars
    /\ UNCHANGED keyVars
    /\ UNCHANGED bookmarkVars

\* Terminal's onExit (escape, or the exit command typed in the panel).
TerminalExit ==
    /\ showTerminal
    /\ showTerminal' = FALSE
    /\ state' = TOGGLE_TERMINAL(state)
    /\ UNCHANGED << filteredIsEntries, target, dirReads, hiddenReads, gitLoads,
                    previewLoads >>
    /\ UNCHANGED fileVars
    /\ UNCHANGED keyVars
    /\ UNCHANGED bookmarkVars

(***************************************************************************)
(* SearchInput (rendered while mode = search).                             *)
(***************************************************************************)
\* TextInput's onChange = setSearchQuery, called when the text changes.
SearchChange(q) ==
    /\ state.mode = "search"
    /\ q # state.searchQuery
    /\ filteredIsEntries' = (q = << >>)
    /\ AfterRender(SET_SEARCH_QUERY(state, q),
                   \/ state.selectedIndex # 0
                   \/ q # << >>
                   \/ ~filteredIsEntries)
    /\ UNCHANGED << showTerminal, target, dirReads, hiddenReads, gitLoads >>
    /\ UNCHANGED fileVars
    /\ UNCHANGED keyVars
    /\ UNCHANGED bookmarkVars
    /\ WithinBound

\* Enter: handleSearchSubmit.
SearchSubmit ==
    /\ state.mode = "search"
    /\ state' = SET_MODE(state, "normal")
    /\ UNCHANGED << showTerminal, filteredIsEntries, target, dirReads,
                    hiddenReads, gitLoads, previewLoads >>
    /\ UNCHANGED fileVars
    /\ UNCHANGED keyVars
    /\ UNCHANGED bookmarkVars

\* Escape: handleSearchCancel.
SearchCancel ==
    /\ state.mode = "search"
    /\ filteredIsEntries' = TRUE
    /\ AfterRender(SET_MODE(SET_SEARCH_QUERY(state, << >>), "normal"),
                   state.selectedIndex # 0 \/ ~filteredIsEntries)
    /\ UNCHANGED << showTerminal, target, dirReads, hiddenReads, gitLoads >>
    /\ UNCHANGED fileVars
    /\ UNCHANGED keyVars
    /\ UNCHANGED bookmarkVars
    /\ WithinBound

(***************************************************************************)
(* ConfirmPrompt (rendered while mode = confirm).                          *)
(***************************************************************************)
ConfirmKeys == {"y", "Y", "n", "N", "escape", "x", "return"}

\* The confirm callback of the delete key, called with confirmed = TRUE: the
\* closure runs up to its first await.
StartDelete(cb) ==
    /\ RegularFilesOnly(cb.files)
    /\ tasks' = Append(tasks, [operation |-> "delete",
                               files |-> cb.files,
                               dir |-> cb.dir,
                               name |-> << >>,
                               count |-> Len(cb.files),
                               awaits |-> "operation",
                               via |-> "key",
                               showHidden |-> state.config.showHidden])

\* Mutation: every key but escape confirms.
ConfirmKey_AnyKeyConfirms(k) ==
    /\ state.mode = "confirm"
    /\ IF k = "escape"
       THEN /\ state' = SET_MODE(state, "normal")
            /\ UNCHANGED tasks
       ELSE /\ state' = SET_MODE(state, "normal")
            /\ IF state.confirmCallback # NO_CALLBACK
               THEN StartDelete(state.confirmCallback)
               ELSE UNCHANGED tasks
    /\ UNCHANGED << showTerminal, filteredIsEntries, target, dirReads,
                    hiddenReads, gitLoads, previewLoads, disk, result >>
    /\ WithinBound
    /\ UNCHANGED keyVars
    /\ UNCHANGED bookmarkVars

ConfirmKey(k) ==
    /\ state.mode = "confirm"
    /\ IF k = "escape" \/ toLowerCase(k) = "n"
       THEN /\ state' = SET_MODE(state, "normal")
            /\ UNCHANGED tasks
       ELSE IF toLowerCase(k) = "y"
       THEN /\ state' = SET_MODE(state, "normal")
            /\ IF state.confirmCallback # NO_CALLBACK
               THEN StartDelete(state.confirmCallback)
               ELSE UNCHANGED tasks
       ELSE UNCHANGED << state, tasks >>
    /\ UNCHANGED << showTerminal, filteredIsEntries, target, dirReads,
                    hiddenReads, gitLoads, previewLoads, disk, result >>
    /\ WithinBound
    /\ UNCHANGED keyVars
    /\ UNCHANGED bookmarkVars

(***************************************************************************)
(* CommandInput, TextInputPrompt, HelpScreen and BookmarksList.            *)
(***************************************************************************)
\* What is typed in the command palette before Enter, character by
\* character.
CommandInputs ==
    { << >>,
      <<" ">>,
      <<"x">>,
      <<"X", "x">>,
      <<"H">>,
      <<"h">>,
      <<"t", "e", "r", "m">>,
      <<"c", "d">>,
      <<"c", "d", " ">>,
      <<"c", "d", " ", "/", "A">>,
      <<"c", "d", " ", "/", "x">>,
      <<"m", "d">>,
      <<"m", "d", " ">>,
      <<"M", "D", " ", "a">>,
      <<"n", "e", "w">>,
      <<"n", "e", "w", " ", " ">>,
      <<"n", "e", "w", " ", "a">>,
      <<"m", "v">>,
      <<"m", "v", " ">>,
      <<"m", "v", " ", "a", "b">> }

\* The lines that start the closure of cd, mkdir, touch or rename.
FileInputs ==
    {input \in CommandInputs :
        \E i \in 2..(Len(input) - 1) : input[i] = " " /\ input[i + 1] # " "}

\* The lines that create a file or a directory.
CreateInputs ==
    {input \in FileInputs : toLowerCase(input[1]) = "n" \/ input[2] = "D"}

\* The lines without a command that takes an argument, for the
\* specification of the modes.
ImmediateInputs ==
    {input \in CommandInputs : Len(input) <= 1} \cup {<<"t", "e", "r", "m">>}

isSpace(c) == c = " "

RECURSIVE trimStart(_)
trimStart(s) ==
    IF s # << >> /\ isSpace(Head(s)) THEN trimStart(Tail(s)) ELSE s

RECURSIVE trimEnd(_)
trimEnd(s) ==
    IF s # << >> /\ isSpace(s[Len(s)])
    THEN trimEnd(SubSeq(s, 1, Len(s) - 1))
    ELSE s

\* String.prototype.trim.
trim(s) == trimEnd(trimStart(s))

\* The characters of s before its first white space.
RECURSIVE takeWord(_)
takeWord(s) ==
    IF s = << >> \/ isSpace(Head(s)) THEN << >>
    ELSE << Head(s) >> \o takeWord(Tail(s))

\* trimmed.split(/\s+/) of a trimmed, non-empty string.
RECURSIVE split(_)
split(s) ==
    IF s = << >> THEN << >>
    ELSE LET w == takeWord(s)
         IN << w >> \o split(trimStart(SubSeq(s, Len(w) + 1, Len(s))))

\* args.join(' ').
RECURSIVE joinArgs(_)
joinArgs(args) ==
    IF args = << >> THEN << >>
    ELSE IF Len(args) = 1 THEN Head(args)
    ELSE Head(args) \o << " " >> \o joinArgs(Tail(args))

\* The command table, in the order of the source: each command with its
\* name and aliases spelled out.
commands ==
    << [name |-> "quit",
        words |-> {<<"q", "u", "i", "t">>,
                   <<"q">>,
                   <<"e", "x", "i", "t">>}],
       [name |-> "cd",
        words |-> {<<"c", "d">>,
                   <<"g", "o", "t", "o">>,
                   <<"g", "o">>}],
       [name |-> "mkdir",
        words |-> {<<"m", "k", "d", "i", "r">>,
                   <<"m", "d">>,
                   <<"n", "e", "w", "d", "i", "r">>}],
       [name |-> "touch",
        words |-> {<<"t", "o", "u", "c", "h">>,
                   <<"n", "e", "w">>,
                   <<"n", "e", "w", "f", "i", "l", "e">>,
                   <<"c", "r", "e", "a", "t", "e">>}],
       [name |-> "rename",
        words |-> {<<"r", "e", "n", "a", "m", "e">>,
                   <<"m", "v">>,
                   <<"r", "e", "n">>}],
       [name |-> "bookmark",
        words |-> {<<"b", "o", "o", "k", "m", "a", "r", "k">>,
                   <<"b", "m">>}],
       [name |-> "set",
        words |-> {<<"s", "e", "t">>,
                   <<"c", "o", "n", "f", "i", "g">>}],
       [name |-> "shell",
        words |-> {<<"s", "h", "e", "l", "l">>,
                   <<"t", "e", "r", "m", "i", "n", "a", "l">>,
                   <<"t", "e", "r", "m">>}],
       [name |-> "open",
        words |-> {<<"o", "p", "e", "n">>,
                   <<"o">>,
                   <<"r", "u", "n">>}],
       [name |-> "yank",
        words |-> {<<"y", "a", "n", "k">>,
                   <<"c", "o", "p", "y", "-", "p", "a", "t", "h">>,
                   <<"c", "p">>}],
       [name |-> "refresh",
        words |-> {<<"r", "e", "f", "r", "e", "s", "h">>,
                   <<"r", "e", "l", "o", "a", "d">>,
                   <<"r">>}],
       [name |-> "home",
        words |-> {<<"h", "o", "m", "e">>,
                   <<"~">>}],
       [name |-> "help",
        words |-> {<<"h", "e", "l", "p">>,
                   <<"h">>,
                   <<"?">>}] >>

\* Mutation: the aliases are not looked at.
find_NamesOnly(cmdName) ==
    LET hits == {i \in 1..Len(commands) :
                     NameString(cmdName) = commands[i].name}
    IN IF hits = {} THEN 0
       ELSE CHOOSE i \in hits : \A j \in hits : i <= j

\* commands.find(...): the index of the first command that has cmdName as
\* its name or an alias, 0 when there is none.
find(cmdName) ==
    LET hits == {i \in 1..Len(commands) : cmdName \in commands[i].words}
    IN IF hits = {} THEN 0
       ELSE CHOOSE i \in hits : \A j \in hits : i <= j

\* The commands whose handlers the model follows.
ModelledCommands ==
    {"cd", "mkdir", "touch", "rename", "shell", "help", "set", "bookmark"}

CommandOk(message) ==
    [success |-> TRUE, message |-> message, error |-> NULL]

CommandFail(error) ==
    [success |-> FALSE, message |-> NULL, error |-> error]

\* Mutation: the catch of executeCommand throws the error again.
catchError_Rethrows(message) == REJECTED

\* The catch of executeCommand.
catchError(message) == CommandFail(message)

\* Mutation: an argument is never found missing.
missing_Never(arg) == FALSE

\* !targetPath, !name, !newName of the handlers that take an argument.
missing(arg) == arg = << >>

UsageMessage(name) ==
    CASE name = "cd" -> "Usage: :cd <path>"
      [] name = "mkdir" -> "Usage: :mkdir <name>"
      [] name = "touch" -> "Usage: :touch <name>"
      [] OTHER -> "Usage: :rename <new-name>"

\* path.resolve of an absolute path without dots.
resolvePath(inputPath) == NameString(inputPath)

\* fs.access succeeds on p.
exists(p) ==
    \/ p \in Dirs
    \/ p \in FilePaths /\ disk[p] # NULL

NO_TASK == [started |-> FALSE]

\* bookmarks.map(([n, p]) => `${n}: ${p}`), each line after a line break.
RECURSIVE ListLines(_)
ListLines(bookmarks) ==
    IF bookmarks = << >> THEN ""
    ELSE "\n" \o Head(bookmarks).name \o ": " \o Head(bookmarks).path
             \o ListLines(Tail(bookmarks))

\* The values of :set hidden that show the hidden entries.
IsOn(value) == NameString(value) \in {"true", "on", "1"}

\* executeCommand(input) up to the first await that waits for I/O, in
\* session state s: the state its dispatches leave, the result when it has
\* settled, the closure that goes on when it has not.
executeCommand(s, input) ==
    LET trimmed == trim(input)
        parts == split(trimmed)
        cmdName == LowerName(parts[1])
        args == Tail(parts)
        arg == trim(joinArgs(args))
        name == commands[find(cmdName)].name
        key == args[1]
        value == trim(joinArgs(Tail(args)))
        settled(s1, r) ==
            [state |-> s1, result |-> r, task |-> NO_TASK, store |-> store]
        started(t) ==
            [state |-> s, result |-> NO_RESULT, task |-> t, store |-> store]
        closure(operation, files, dir) ==
            [operation |-> operation, files |-> files, dir |-> dir,
             name |-> arg, count |-> 1, awaits |-> "exists",
             via |-> "command", showHidden |-> s.config.showHidden]
    IN IF trimmed = << >>
       THEN settled(s, CommandFail("No command entered"))
       ELSE IF find(cmdName) = 0
       THEN settled(s, CommandFail("Unknown command: "
                                       \o NameString(cmdName)))
       ELSE IF name = "shell"
       THEN settled(TOGGLE_TERMINAL(s), CommandOk("Terminal toggled"))
       ELSE IF name = "help"
       THEN settled(SET_MODE(s, "help"), CommandOk(NULL))
       ELSE IF name = "bookmark"
       THEN LET subcommand == IF args = << >> THEN "" ELSE NameString(key)
                label == NameString(value)
                added == withBookmark(s.config.bookmarks, label,
                                      s.currentPath)
                updated == withoutBookmark(s.config.bookmarks, label)
            IN CASE subcommand = "add" ->
                        IF value = << >>
                        THEN settled(s, CommandFail(
                                            "Usage: :bookmark add <name>"))
                        ELSE [state |-> SET_CONFIG(s, [bookmarks |-> added]),
                              result |-> CommandOk("Added bookmark: "
                                                       \o label),
                              task |-> NO_TASK,
                              store |-> setConfig("bookmarks", added)]
                 [] subcommand \in {"remove", "delete", "rm"} ->
                        IF value = << >>
                        THEN settled(s, CommandFail(
                                            "Usage: :bookmark remove <name>"))
                        ELSE IF updated = s.config.bookmarks
                        THEN settled(s, CommandFail("Bookmark not found: "
                                                        \o label))
                        ELSE [state |-> SET_CONFIG(s, [bookmarks |-> updated]),
                              result |-> CommandOk("Removed bookmark: "
                                                       \o label),
                              task |-> NO_TASK,
                              store |-> setConfig("bookmarks", updated)]
                 [] subcommand = "list" ->
                        settled(s, CommandOk(
                                       IF s.config.bookmarks = << >>
                                       THEN "No bookmarks saved"
                                       ELSE "Bookmarks:"
                                                \o ListLines(
                                                       s.config.bookmarks)))
                 [] OTHER ->
                        settled(s, CommandFail(
                            "Usage: :bookmark <add|remove|list> [name]"))
       ELSE IF name = "set"
       THEN IF args = << >>
            THEN settled(s, CommandFail("Usage: :set <key> <value>"))
            ELSE IF NameString(key) = "hidden"
            THEN [state |-> SET_CONFIG(s, [showHidden |-> IsOn(value)]),
                  result |-> NO_RESULT,
                  task |-> [operation |-> "set", files |-> << >>,
                            dir |-> s.currentPath, name |-> value,
                            count |-> 1, awaits |-> "refresh",
                            via |-> "command",
                            showHidden |-> s.config.showHidden],
                  store |-> setConfig("showHidden", IsOn(value))]
            ELSE settled(s, CommandFail("Unknown setting: "
                                            \o NameString(key)))
       ELSE IF missing(arg)
       THEN settled(s, CommandFail(UsageMessage(name)))
       ELSE IF name = "cd"
       THEN started(closure("cd", << >>, resolvePath(arg)))
       ELSE IF name = "rename"
       THEN IF HasSelected(s)
            THEN started(closure("rename", << Selected(s) >>,
                                 s.currentPath))
            ELSE settled(s, CommandFail("No file selected"))
       ELSE started(closure(IF name = "touch" THEN "create" ELSE "mkdir",
                            << Item(arg, join(s.currentPath, arg), FALSE) >>,
                            s.currentPath))

\* The rest of handleCommandSubmit after its await: nothing of it runs when
\* the awaited promise rejected.
AfterCommand(s, r) ==
    IF r = REJECTED THEN s
    ELSE SET_MODE(IF r.error \notin {NULL, ""} THEN SET_ERROR(s, r.error)
                  ELSE IF r.message \notin {NULL, ""}
                  THEN SET_MESSAGE(s, r.message)
                  ELSE s,
                  "normal")

\* The leading token of the line names a command the model follows.
Modelled(input) ==
    IF trim(input) = << >> THEN TRUE
    ELSE IF find(LowerName(split(trim(input))[1])) = 0 THEN TRUE
    ELSE /\ commands[find(LowerName(split(trim(input))[1]))].name
                \in ModelledCommands
         /\ commands[find(LowerName(split(trim(input))[1]))].name = "set"
                /\ Len(split(trim(input))) > 1
                => NameString(split(trim(input))[2]) \notin {"icons", "theme"}

\* Enter in the command palette: handleCommandSubmit up to the first await
\* that waits for I/O.
CommandSubmit(input) ==
    /\ state.mode = "command"
    /\ Modelled(input)
    /\ LET run == executeCommand(state, input)
       IN /\ store' = run.store
          /\ IF run.task = NO_TASK
             THEN /\ state' = AfterCommand(run.state, run.result)
                  /\ result' = run.result
                  /\ UNCHANGED << tasks, target, dirReads, hiddenReads >>
             ELSE IF run.task.awaits = "refresh"
             THEN /\ loadDirectory(run.state, run.task.dir,
                                   run.task.showHidden)
                  /\ tasks' = Append(tasks, run.task)
                  /\ UNCHANGED result
             ELSE /\ state' = run.state
                  /\ tasks' = Append(tasks, run.task)
                  /\ UNCHANGED << result, target, dirReads, hiddenReads >>
    /\ UNCHANGED << showTerminal, filteredIsEntries, gitLoads, previewLoads,
                    disk, addingBookmark, bookmarkIndex >>
    /\ WithinBound
    /\ UNCHANGED keyVars

\* Escape in the command palette or the text prompt: handleInputCancel.
InputCancel ==
    /\ state.mode \in {"command", "input"}
    /\ state' = SET_MODE(state, "normal")
    /\ UNCHANGED << showTerminal, filteredIsEntries, target, dirReads,
                    hiddenReads, gitLoads, previewLoads >>
    /\ UNCHANGED fileVars
    /\ UNCHANGED keyVars
    /\ UNCHANGED bookmarkVars

InputValues == {<< >>, <<"a">>}

\* The closure the callback cb of a text prompt starts for value, NO_TASK
\* when its condition on the value does not hold.
PromptTask(cb, value) ==
    LET closure(operation, files) ==
            [operation |-> operation, files |-> files, dir |-> cb.dir,
             name |-> trim(value), count |-> 1, awaits |-> "operation",
             via |-> "key", showHidden |-> state.config.showHidden]
        created == << Item(trim(value), join(cb.dir, trim(value)), FALSE) >>
    IN CASE cb.kind = "newFile" /\ trim(value) # << >> ->
                closure("create", created)
         [] cb.kind = "newFolder" /\ trim(value) # << >> ->
                closure("mkdir", created)
         [] cb.kind = "rename" /\ trim(value) # << >>
                               /\ value # cb.current.name ->
                closure("rename", << cb.current >>)
         [] OTHER -> NO_TASK

\* Enter in the text prompt: handleInputSubmit calls the callback, which
\* runs up to its first await, and returns to normal mode.
InputSubmit(value) ==
    /\ state.mode = "input"
    /\ state' = SET_MODE(state, "normal")
    /\ IF state.inputCallback # NO_CALLBACK
            /\ PromptTask(state.inputCallback, value) # NO_TASK
       THEN /\ RegularFilesOnly(PromptTask(state.inputCallback, value).files)
            /\ tasks' = Append(tasks,
                               PromptTask(state.inputCallback, value))
       ELSE UNCHANGED tasks
    /\ UNCHANGED << showTerminal, filteredIsEntries, target, dirReads,
                    hiddenReads, gitLoads, previewLoads, disk, result >>
    /\ WithinBound
    /\ UNCHANGED keyVars
    /\ UNCHANGED bookmarkVars

\* Any key on the help screen.
HelpClose ==
    /\ state.mode = "help"
    /\ state' = SET_MODE(state, "normal")
    /\ UNCHANGED << showTerminal, filteredIsEntries, target, dirReads,
                    hiddenReads, gitLoads, previewLoads >>
    /\ UNCHANGED fileVars
    /\ UNCHANGED keyVars
    /\ UNCHANGED bookmarkVars

BookmarkKeys == {"escape", "return", "j"}

\* BookmarksList: escape closes, Enter goes to the highlighted bookmark, j
\* and k move the list's own highlight, d saves the table without the
\* highlighted bookmark.
BookmarksKey(k) ==
    /\ state.mode = "bookmarks"
    /\ IF k = "escape"
       THEN /\ state' = SET_MODE(state, "normal")
            /\ UNCHANGED << dirReads, hiddenReads, target, bookmarkIndex,
                            store >>
       ELSE IF k = "return" /\ Len(state.config.bookmarks) > 0
       THEN /\ loadDirectory(SET_MODE(state, "normal"),
                             state.config.bookmarks[bookmarkIndex + 1].path,
                             state.config.showHidden)
            /\ UNCHANGED << bookmarkIndex, store >>
       ELSE /\ bookmarkIndex' =
                   IF k = "j"
                   THEN Min(bookmarkIndex + 1, Len(state.config.bookmarks) - 1)
                   ELSE IF k = "k" THEN Max(bookmarkIndex - 1, 0)
                   ELSE bookmarkIndex
            /\ store' =
                   IF k = "d" /\ Len(state.config.bookmarks) > 0
                   THEN setConfig("bookmarks",
                            withoutBookmark(
                                state.config.bookmarks,
                                state.config.bookmarks[bookmarkIndex + 1].name))
                   ELSE store
            /\ UNCHANGED << state, dirReads, hiddenReads, target >>
    /\ UNCHANGED << showTerminal, filteredIsEntries, gitLoads, previewLoads,
                    addingBookmark >>
    /\ UNCHANGED fileVars
    /\ UNCHANGED keyVars
    /\ WithinBound

\* AddBookmark is rendered: no modal of a mode is, and the flag is set.
PromptOpen ==
    /\ addingBookmark
    /\ state.mode \notin {"search", "command", "input", "confirm", "help",
                          "bookmarks"}

\* The names typed into the add-bookmark prompt.
BookmarkNames == {<<"a">>, <<" ">>}

\* Enter in the add-bookmark prompt with the name typed so far.  AddBookmark
\* calls handleAddBookmark when the trimmed name is not empty; the same key
\* event reaches the handler of AppContent, whose open branch takes Enter.
AddBookmarkSubmit(name) ==
    /\ PromptOpen
    /\ LET added == withBookmark(state.config.bookmarks,
                                 NameString(trim(name)), state.currentPath)
           s1 == IF trim(name) = << >> THEN state
                 ELSE SET_MESSAGE(SET_CONFIG(state, [bookmarks |-> added]),
                                  "Added bookmark: "
                                      \o NameString(trim(name)))
       IN /\ store' = IF trim(name) = << >> THEN store
                      ELSE setConfig("bookmarks", added)
          /\ addingBookmark' = (trim(name) = << >>)
          /\ IF NormalInput /\ HasSelected(state)
                            /\ Selected(state).isDirectory
             THEN loadDirectory(s1, Selected(state).path,
                                state.config.showHidden)
             ELSE /\ state' = s1
                  /\ UNCHANGED << dirReads, hiddenReads, target >>
    /\ UNCHANGED << showTerminal, filteredIsEntries, gitLoads, previewLoads,
                    bookmarkIndex >>
    /\ UNCHANGED fileVars
    /\ UNCHANGED keyVars
    /\ WithinBound

\* Escape in the add-bookmark prompt; no branch of AppContent's handler
\* takes escape.
AddBookmarkCancel ==
    /\ PromptOpen
    /\ addingBookmark' = FALSE
    /\ UNCHANGED << state, showTerminal, filteredIsEntries, target, dirReads,
                    hiddenReads, gitLoads, previewLoads >>
    /\ UNCHANGED fileVars
    /\ UNCHANGED keyVars
    /\ UNCHANGED << bookmarkIndex, store >>

(***************************************************************************)
(* The paste and delete closures, and the file system under them.          *)
(***************************************************************************)
RemoveAt(s, i) == SubSeq(s, 1, i - 1) \o SubSeq(s, i + 1, Len(s))

\* Where a rename closure moves its file, and the path a create or mkdir
\* closure makes.
Destination(t) ==
    IF t.operation = "rename" THEN join(t.dir, t.name)
    ELSE IF t.operation \in {"copy", "cut"}
    THEN join(t.dir, Head(t.files).name)
    ELSE Head(t.files).path

\* The exists() a command closure awaits first resolved; it found the
\* path of a create, mkdir or rename occupied, or the path of a cd missing.
ExistsMessage(t) ==
    CASE t.operation = "cd" -> "Path not found: " \o t.dir
      [] t.operation = "mkdir" -> "Directory already exists"
      [] t.operation = "create" -> "File already exists"
      [] OTHER -> "A file with that name already exists"

ExistsResolved(i) ==
    /\ tasks[i].awaits = "exists"
    /\ LET t == tasks[i]
           path == IF t.operation = "cd" THEN t.dir ELSE Destination(t)
           refused == IF t.operation = "cd" THEN ~exists(path)
                      ELSE exists(path)
       IN IF refused
          THEN /\ result' = CommandFail(ExistsMessage(t))
               /\ state' = AfterCommand(state, CommandFail(ExistsMessage(t)))
               /\ tasks' = RemoveAt(tasks, i)
               /\ UNCHANGED << dirReads, hiddenReads, target >>
          ELSE IF t.operation = "cd"
          THEN /\ path \in Dirs
               /\ tasks' = [tasks EXCEPT ![i].awaits = "refresh"]
               /\ loadDirectory(state, path, t.showHidden)
               /\ UNCHANGED result
          ELSE /\ RegularFilesOnly(t.files)
               /\ tasks' = [tasks EXCEPT ![i].awaits = "operation"]
               /\ UNCHANGED << state, dirReads, hiddenReads, target, result >>
    /\ UNCHANGED << showTerminal, filteredIsEntries, gitLoads, previewLoads,
                    disk >>
    /\ WithinBound
    /\ UNCHANGED keyVars
    /\ UNCHANGED bookmarkVars

\* copyFile, moveFile, deleteFile and renameFile start with a stat / rename
\* / unlink of the source, which throws when the source is absent;
\* createFile writes an empty file at the path, present or not;
\* createDirectory throws when the path holds a regular file.
SourcePresent(t) ==
    CASE t.operation = "create" -> TRUE
      [] t.operation = "mkdir" ->
             disk[Head(t.files).path] \in {NULL, DIRECTORY}
      [] OTHER -> disk[Head(t.files).path] # NULL

\* The disk after the operation of task t on its next file; copyFile and
\* rename replace whatever is at the destination.
DiskAfter(t) ==
    LET src == Head(t.files).path
        dest == Destination(t)
    IN CASE t.operation = "copy" -> [disk EXCEPT ![dest] = disk[src]]
         [] t.operation = "create" -> [disk EXCEPT ![src] = ""]
         [] t.operation = "mkdir" -> [disk EXCEPT ![src] = DIRECTORY]
         [] t.operation \in {"cut", "rename"} ->
                IF dest = src THEN disk
                ELSE [disk EXCEPT ![dest] = disk[src], ![src] = NULL]
         [] OTHER -> [disk EXCEPT ![src] = NULL]

\* What the closure dispatches after its loop, before refresh().
AfterLoop(s, t) ==
    CASE t.operation = "cut" -> SET_CLIPBOARD(s, NO_CLIPBOARD)
      [] t.operation = "delete" -> CLEAR_SELECTION(s)
      [] OTHER -> s

\* The awaited file operation of task i succeeds; after the last file the
\* closure goes on to refresh(), the one captured with the closure.
FileOperationOk(i) ==
    /\ tasks[i].awaits = "operation"
    /\ SourcePresent(tasks[i])
    /\ disk' = DiskAfter(tasks[i])
    /\ IF Len(tasks[i].files) > 1
       THEN /\ tasks' = [tasks EXCEPT ![i].files = Tail(@)]
            /\ UNCHANGED << state, dirReads, hiddenReads, target >>
       ELSE /\ tasks' = [tasks EXCEPT ![i].awaits = "refresh"]
            /\ loadDirectory(AfterLoop(state, tasks[i]), tasks[i].dir,
                             tasks[i].showHidden)
    /\ UNCHANGED << showTerminal, filteredIsEntries, gitLoads, previewLoads,
                    result >>
    /\ UNCHANGED keyVars
    /\ UNCHANGED bookmarkVars

\* The message of a closure that ran to its end: setMessage of a key's
\* closure, the result's message of a command.
DoneMessage(t) ==
    CASE t.operation = "cd" -> "Changed to " \o t.dir
      [] t.operation = "create" ->
             (IF t.via = "command" THEN "Created file: " ELSE "Created: ")
                 \o NameString(t.name)
      [] t.operation = "mkdir" ->
             (IF t.via = "command" THEN "Created directory: "
              ELSE "Created folder: ") \o NameString(t.name)
      [] t.operation = "rename" -> "Renamed to: " \o NameString(t.name)
      [] t.operation = "set" ->
             "Hidden files: " \o (IF IsOn(t.name) THEN "shown" ELSE "hidden")
      [] OTHER -> CountMessage(CASE t.operation = "copy" -> "Copied"
                                 [] t.operation = "cut" -> "Moved"
                                 [] OTHER -> "Deleted",
                               t.count)

\* What the closure of a key dispatches after its try / catch.
AfterClosure(s, t) ==
    IF t.operation \in {"create", "mkdir", "rename"}
    THEN SET_MODE(s, "normal")
    ELSE s

\* The session after closure t ended, with its message when ok and with
\* the error it caught otherwise.
CloseTask(s, t, ok, message) ==
    IF t.via = "command"
    THEN AfterCommand(s, IF ok THEN CommandOk(message)
                         ELSE catchError(message))
    ELSE AfterClosure(IF ok THEN SET_MESSAGE(s, message)
                      ELSE SET_ERROR(s, message), t)

\* What executeCommand settled to when closure t was a command's.
CloseResult(t, ok, message) ==
    IF t.via = "command"
    THEN IF ok THEN CommandOk(message) ELSE catchError(message)
    ELSE result

FileErrorMessage(f) == "ENOENT: no such file or directory, " \o f

\* The message of the error the operation of task t throws.
OperationErrorMessage(t) ==
    IF t.operation = "mkdir"
    THEN "EEXIST: file already exists, mkdir " \o Head(t.files).path
    ELSE FileErrorMessage(Head(t.files).path)

\* The awaited file operation of task i throws: the catch reports the error
\* and the closure ends.
FileOperationFail(i) ==
    /\ tasks[i].awaits = "operation"
    /\ ~SourcePresent(tasks[i])
    /\ state' = CloseTask(state, tasks[i], FALSE,
                          OperationErrorMessage(tasks[i]))
    /\ result' = CloseResult(tasks[i], FALSE,
                             OperationErrorMessage(tasks[i]))
    /\ tasks' = RemoveAt(tasks, i)
    /\ UNCHANGED << showTerminal, filteredIsEntries, target, dirReads,
                    hiddenReads, gitLoads, previewLoads, disk >>
    /\ UNCHANGED keyVars
    /\ UNCHANGED bookmarkVars

\* The read of the refresh of a task resolved or failed: it leaves the bag
\* of the flag it was issued with.
Settled(p, showHidden) ==
    IF showHidden
    THEN /\ hiddenReads' = Dec(hiddenReads, p)
         /\ UNCHANGED dirReads
    ELSE /\ dirReads' = Dec(dirReads, p)
         /\ UNCHANGED hiddenReads

\* The refresh of task i resolved: loadDirectory's continuation, then the
\* closure's message.
TaskRefreshOk(i) ==
    /\ tasks[i].awaits = "refresh"
    /\ LET p == tasks[i].dir
       IN /\ Settled(p, tasks[i].showHidden)
          /\ gitLoads' = Inc(gitLoads, p)
          /\ AfterRender(
                 CloseTask(
                     SET_LOADING(
                         SET_PATH(state, p, Listing[p, tasks[i].showHidden]),
                         FALSE),
                     tasks[i], TRUE, DoneMessage(tasks[i])),
                 TRUE)
    /\ result' = CloseResult(tasks[i], TRUE, DoneMessage(tasks[i]))
    /\ filteredIsEntries' = TRUE
    /\ tasks' = RemoveAt(tasks, i)
    /\ UNCHANGED << showTerminal, target, disk >>
    /\ WithinBound
    /\ UNCHANGED keyVars
    /\ UNCHANGED bookmarkVars

\* The refresh of task i failed: loadDirectory catches the error, so the
\* closure still reports its message.
TaskRefreshFail(i) ==
    /\ tasks[i].awaits = "refresh"
    /\ tasks[i].dir \in FailingDirs
    /\ Settled(tasks[i].dir, tasks[i].showHidden)
    /\ state' = CloseTask(
                    SET_LOADING(
                        SET_ERROR(state, ReadErrorMessage(tasks[i].dir)),
                        FALSE),
                    tasks[i], TRUE, DoneMessage(tasks[i]))
    /\ result' = CloseResult(tasks[i], TRUE, DoneMessage(tasks[i]))
    /\ tasks' = RemoveAt(tasks, i)
    /\ UNCHANGED << showTerminal, filteredIsEntries, target, gitLoads,
                    previewLoads, disk >>
    /\ UNCHANGED keyVars
    /\ UNCHANGED bookmarkVars

\* The file another process can remove while the session runs.
RemovableFiles == {"/A/a"}

ExternalRemove(f) ==
    /\ disk[f] # NULL
    /\ disk' = [disk EXCEPT ![f] = NULL]
    /\ UNCHANGED << state, showTerminal, filteredIsEntries, target, dirReads,
                    hiddenReads, gitLoads, previewLoads, tasks, result >>
    /\ UNCHANGED keyVars
    /\ UNCHANGED bookmarkVars

Next ==
    \/ \E p \in Dirs : ReadDirectoryOk(p)
    \/ \E p \in Dirs : ReadDirectoryFail(p)
    \/ \E p \in Dirs : GitInfoResolved(p)
    \/ \E f \in FilePaths : PreviewResolved(f)
    \/ KeyDown
    \/ KeyUp
    \/ KeyPageDown
    \/ KeyPageUp
    \/ KeyOpen
    \/ KeyParent
    \/ KeyHome
    \/ KeySearch
    \/ KeyTerminal
    \/ TerminalExit
    \/ \E q \in Queries : SearchChange(q)
    \/ SearchSubmit
    \/ SearchCancel

Spec == Init /\ [][Next]_vars

\* Navigation with the multi-selection: the keys that move, navigate and mark.
NextSelection ==
    \/ \E p \in Dirs : ReadDirectoryOk(p)
    \/ \E p \in Dirs : ReadDirectoryFail(p)
    \/ \E p \in Dirs : GitInfoResolved(p)
    \/ \E f \in FilePaths : PreviewResolved(f)
    \/ KeyDown
    \/ KeyOpen
    \/ KeyParent
    \/ KeySelect

SpecSelection == Init /\ [][NextSelection]_vars

TaskIds == 1..MaxInFlight

\* Marking and the clipboard keys, over navigation and refresh.
NextClipboard ==
    \/ \E p \in Dirs : ReadDirectoryOk(p)
    \/ \E p \in Dirs : GitInfoResolved(p)
    \/ \E f \in FilePaths : PreviewResolved(f)
    \/ KeyHome
    \/ KeyParent
    \/ KeySelect
    \/ KeySelectAll
    \/ KeyCopy
    \/ KeyCut
    \/ KeyRefresh

SpecClipboard == Init /\ [][NextClipboard]_vars

\* Copy and paste.
NextCopy ==
    \/ \E p \in Dirs : ReadDirectoryOk(p)
    \/ \E p \in Dirs : GitInfoResolved(p)
    \/ \E f \in FilePaths : PreviewResolved(f)
    \/ KeyHome
    \/ KeyParent
    \/ KeySelectAll
    \/ KeyCopy
    \/ KeyPaste
    \/ \E i \in TaskIds : i <= Len(tasks) /\ FileOperationOk(i)
    \/ \E i \in TaskIds : i <= Len(tasks) /\ TaskRefreshOk(i)

SpecCopy == Init /\ [][NextCopy]_vars

\* Cut and paste, while another process removes a file.
NextCut ==
    \/ \E p \in Dirs : ReadDirectoryOk(p)
    \/ \E p \in Dirs : GitInfoResolved(p)
    \/ \E f \in FilePaths : PreviewResolved(f)
    \/ KeyHome
    \/ KeyParent
    \/ KeySelectAll
    \/ KeyCut
    \/ KeyPaste
    \/ \E i \in TaskIds : i <= Len(tasks) /\ FileOperationOk(i)
    \/ \E i \in TaskIds : i <= Len(tasks) /\ FileOperationFail(i)
    \/ \E i \in TaskIds : i <= Len(tasks) /\ TaskRefreshOk(i)
    \/ \E f \in RemovableFiles : ExternalRemove(f)

SpecCut == Init /\ [][NextCut]_vars

\* Marking and refresh, while another process removes a file.
NextRefresh ==
    \/ \E p \in Dirs : ReadDirectoryOk(p)
    \/ \E p \in Dirs : GitInfoResolved(p)
    \/ \E f \in FilePaths : PreviewResolved(f)
    \/ KeyHome
    \/ KeySelect
    \/ KeySelectAll
    \/ KeyRefresh
    \/ \E f \in RemovableFiles : ExternalRemove(f)

SpecRefresh == Init /\ [][NextRefresh]_vars

\* Marking and the confirmed delete, while another process removes a file.
NextDelete ==
    \/ \E p \in Dirs : ReadDirectoryOk(p)
    \/ \E p \in Dirs : GitInfoResolved(p)
    \/ \E f \in FilePaths : PreviewResolved(f)
    \/ KeyHome
    \/ KeySelect
    \/ KeySelectAll
    \/ KeyDelete
    \/ \E k \in ConfirmKeys : ConfirmKey(k)
    \/ \E i \in TaskIds : i <= Len(tasks) /\ FileOperationOk(i)
    \/ \E i \in TaskIds : i <= Len(tasks) /\ FileOperationFail(i)
    \/ \E i \in TaskIds : i <= Len(tasks) /\ TaskRefreshOk(i)
    \/ \E f \in RemovableFiles : ExternalRemove(f)

SpecDelete == Init /\ [][NextDelete]_vars

\* The modal modes: how each is entered and left.  Enter in the bookmark
\* list is a navigation, which the specifications above follow; the cursor
\* stays on the first entry, a directory, so no file preview is loaded.
NextModes ==
    \/ \E p \in Dirs : ReadDirectoryOk(p)
    \/ \E p \in Dirs : GitInfoResolved(p)
    \/ KeySelect
    \/ KeyCopy
    \/ KeySearch
    \/ SearchSubmit
    \/ SearchCancel
    \/ KeyCommand
    \/ \E input \in ImmediateInputs : CommandSubmit(input)
    \/ KeyHelp
    \/ HelpClose
    \/ KeyGoToBookmark
    \/ \E k \in BookmarkKeys \ {"return"} : BookmarksKey(k)
    \/ KeyNewFile
    \/ \E value \in InputValues : InputSubmit(value)
    \/ InputCancel
    \/ KeyDelete
    \/ \E k \in ConfirmKeys : ConfirmKey(k)
    \/ \E i \in TaskIds : i <= Len(tasks) /\ FileOperationOk(i)
    \/ \E i \in TaskIds : i <= Len(tasks) /\ TaskRefreshOk(i)

SpecModes == Init /\ [][NextModes]_vars

\* The command palette: the lines that settle at once.
NextPalette ==
    \/ \E p \in Dirs : ReadDirectoryOk(p)
    \/ \E p \in Dirs : GitInfoResolved(p)
    \/ KeyCommand
    \/ \E input \in CommandInputs \ FileInputs : CommandSubmit(input)
    \/ InputCancel

SpecPalette == Init /\ [][NextPalette]_vars

\* The closures of cd and rename, while another process removes a file.
NextCommand ==
    \/ \E p \in Dirs : ReadDirectoryOk(p)
    \/ \E p \in Dirs : GitInfoResolved(p)
    \/ \E f \in FilePaths : PreviewResolved(f)
    \/ KeyCommand
    \/ \E input \in FileInputs \ CreateInputs : CommandSubmit(input)
    \/ \E i \in TaskIds : i <= Len(tasks) /\ ExistsResolved(i)
    \/ \E i \in TaskIds : i <= Len(tasks) /\ FileOperationOk(i)
    \/ \E i \in TaskIds : i <= Len(tasks) /\ FileOperationFail(i)
    \/ \E i \in TaskIds : i <= Len(tasks) /\ TaskRefreshOk(i)
    \/ \E f \in RemovableFiles : ExternalRemove(f)

SpecCommand == Init /\ [][NextCommand]_vars

\* The closures of touch and mkdir in the start directory.
NextCreate ==
    \/ \E p \in Dirs : ReadDirectoryOk(p)
    \/ \E p \in Dirs : GitInfoResolved(p)
    \/ KeyCommand
    \/ \E input \in CreateInputs : CommandSubmit(input)
    \/ \E i \in TaskIds : i <= Len(tasks) /\ ExistsResolved(i)
    \/ \E i \in TaskIds : i <= Len(tasks) /\ FileOperationOk(i)
    \/ \E i \in TaskIds : i <= Len(tasks) /\ FileOperationFail(i)
    \/ \E i \in TaskIds : i <= Len(tasks) /\ TaskRefreshOk(i)

SpecCreate == Init /\ [][NextCreate]_vars

\* The text prompts of the new-file, new-folder and rename keys.
NextPrompt ==
    \/ \E p \in Dirs : ReadDirectoryOk(p)
    \/ \E p \in Dirs : GitInfoResolved(p)
    \/ \E f \in FilePaths : PreviewResolved(f)
    \/ KeyHome
    \/ KeyNewFile
    \/ KeyNewFolder
    \/ KeyRename
    \/ \E value \in InputValues : InputSubmit(value)
    \/ InputCancel
    \/ \E i \in TaskIds : i <= Len(tasks) /\ FileOperationOk(i)
    \/ \E i \in TaskIds : i <= Len(tasks) /\ FileOperationFail(i)
    \/ \E i \in TaskIds : i <= Len(tasks) /\ TaskRefreshOk(i)

SpecPrompt == Init /\ [][NextPrompt]_vars

\* The resolution of key events under each of the configurations.
NextKeys ==
    \E event \in KeyEvents : KeyPress(event.input, event.key)

SpecKeys == InitKeys /\ [][NextKeys]_vars


(***************************************************************************)
(* Properties.                                                             *)
(***************************************************************************)
ReadsSettled == Pending(dirReads) = 0

\* C1: a directory read that was superseded by a later navigate is
\* discarded: its completion leaves currentPath and entries alone, and once
\* every read has resolved and the latest one succeeded, the session shows
\* the most recently requested path with that path's listing.
C1_SupersededNavigationDiscarded ==
    /\ []((ReadsSettled /\ state.error = NULL) =>
            /\ state.currentPath = target
            /\ state.entries = readDirectory(target, FALSE))
    /\ [][\A p \in Dirs :
            (ReadDirectoryOk(p) /\ p # target) =>
                /\ state'.currentPath = state.currentPath
                /\ state'.entries = state.entries]_vars

\* C2: a git-status answer for directory p is applied only while
\* currentPath is still p, so a non-null gitInfo always is the answer of the
\* query for the current directory.
C2_StaleGitInfoDiscarded ==
    /\ [](state.gitInfo # NO_GIT_INFO =>
            state.gitInfo = getGitInfo(state.currentPath))
    /\ [][\A p \in Dirs :
            (GitInfoResolved(p) /\ p # state.currentPath) =>
                state'.gitInfo = state.gitInfo]_vars

\* What the preview of entry e is: empty for a directory, the file's
\* content and binary flag otherwise.
PreviewOf(e) ==
    IF e.isDirectory THEN [content |-> "", isBinary |-> FALSE]
    ELSE getFilePreview(e.path)

\* C3: a preview load for entry f is applied only while f is still the
\* selected entry, so once no preview load is pending the preview shown is
\* the one of the selected entry.
C3_StalePreviewDiscarded ==
    /\ []((Pending(previewLoads) = 0 /\ HasSelected(state)) =>
            /\ state.previewContent = PreviewOf(Selected(state)).content
            /\ state.previewIsBinary = PreviewOf(Selected(state)).isBinary)
    /\ [][\A f \in FilePaths :
            (PreviewResolved(f)
                /\ ~(HasSelected(state) /\ Selected(state).path = f)) =>
                /\ state'.previewContent = state.previewContent
                /\ state'.previewIsBinary = state.previewIsBinary]_vars

\* C4: selectedIndex is always an index of filteredEntries, and 0 when
\* filteredEntries is empty.
C4_SelectedIndexInRange ==
    IF Len(state.filteredEntries) = 0
    THEN state.selectedIndex = 0
    ELSE /\ 0 <= state.selectedIndex
         /\ state.selectedIndex <= Len(state.filteredEntries) - 1

\* C5: scrollOffset is never negative and the cursor is inside the visible
\* window [scrollOffset, scrollOffset + visibleHeight).
C5_CursorInsideWindow ==
    /\ state.scrollOffset >= 0
    /\ state.scrollOffset <= state.selectedIndex
    /\ state.selectedIndex < state.scrollOffset + visibleHeight

\* Two characters that are the same letter, whatever their case.
\* The letters of the model in their two cases.
CasePairs ==
    {<<"a", "A">>, <<"b", "B">>, <<"d", "D">>, <<"h", "H">>, <<"m", "M">>,
     <<"x", "X">>}

SameLetter(c, d) ==
    \/ c = d
    \/ << c, d >> \in CasePairs
    \/ << d, c >> \in CasePairs

\* name contains q as a substring, compared letter by letter without case.
ContainsIgnoringCase(name, q) ==
    \E off \in 0..(Len(name) - Len(q)) :
        \A k \in 1..Len(q) : SameLetter(name[off + k], q[k])

\* fs is the subsequence of es, in the order of es, of the entries whose
\* name contains q.
IsMatchingSubsequence(fs, es, q) ==
    LET hits == {i \in 1..Len(es) : ContainsIgnoringCase(es[i].name, q)}
        nth(j) == CHOOSE i \in hits :
                      Cardinality({k \in hits : k < i}) = j - 1
    IN /\ Len(fs) = Cardinality(hits)
       /\ \A j \in 1..Len(fs) : fs[j] = es[nth(j)]

C7_SearchResetsCursorAndScroll ==
    [][((\E q \in Queries : SearchChange(q)) \/ SearchCancel) =>
            /\ state'.selectedIndex = 0
            /\ state'.scrollOffset = 0]_vars

\* C8: filteredEntries is always entries filtered by searchQuery, hence
\* entries itself while searchQuery is empty.
C8_FilteredIsViewOfEntries ==
    /\ IsMatchingSubsequence(state.filteredEntries, state.entries,
                             state.searchQuery)
    /\ (state.searchQuery = << >> => state.filteredEntries = state.entries)

\* C9: the completion of the read of the most recently requested path
\* commits the path, its listing as entries and filteredEntries, cursor and
\* scroll at 0, an empty search query, and starts the git-status query of
\* that path.
C9_NavigateCommits ==
    [][\A p \in Dirs :
            (ReadDirectoryOk(p) /\ p = target) =>
                /\ state'.currentPath = p
                /\ state'.entries = readDirectory(p, FALSE)
                /\ state'.filteredEntries = state'.entries
                /\ state'.selectedIndex = 0
                /\ state'.scrollOffset = 0
                /\ state'.searchQuery = << >>
                /\ gitLoads'[p] = gitLoads[p] + 1]_vars

\* The session sits in /A after having scrolled elsewhere, with /A's git
\* query pending.
C9_Witness ==
    /\ state.currentPath = "/A"
    /\ target = "/A"
    /\ state.entries = readDirectory("/A", FALSE)
    /\ state.entries # << >>
    /\ gitLoads["/A"] > 0
    /\ ReadsSettled

\* C10: a failed directory read changes neither currentPath, entries,
\* filteredEntries, selectedIndex nor selectedFiles, sets the error slot and
\* starts no git-status query.
C10_FailedReadKeepsSession ==
    [][\A p \in Dirs :
            ReadDirectoryFail(p) =>
                /\ state'.currentPath = state.currentPath
                /\ state'.entries = state.entries
                /\ state'.filteredEntries = state.filteredEntries
                /\ state'.selectedIndex = state.selectedIndex
                /\ state'.selectedFiles = state.selectedFiles
                /\ state'.error # NULL
                /\ gitLoads' = gitLoads]_vars

\* The read of /B failed while files were marked and the cursor was off 0.
C10_Witness ==
    /\ state.error = ReadErrorMessage("/B")
    /\ target = "/B"
    /\ state.currentPath = "/"
    /\ state.entries # << >>
    /\ state.selectedFiles # {}
    /\ state.selectedIndex > 0
    /\ ReadsSettled

\* The paths of a list of entries.
PathsOf(es) == {es[i].path : i \in 1..Len(es)}

\* C11: when a reload of the current directory completes, the marked paths
\* that are in the reloaded listing stay marked and those that are no longer
\* in it are dropped.
C11_RefreshPrunesSelection ==
    [][\A p \in Dirs :
            (/\ ReadDirectoryOk(p)
             /\ p = state.currentPath
             /\ state.selectedFiles \subseteq PathsOf(state.entries)) =>
                state'.selectedFiles =
                    state.selectedFiles \cap PathsOf(state'.entries)]_vars

MarkablePaths == FilePaths \cup Dirs

\* C13: toggling a path twice gives back the state; one toggle changes the
\* membership of that path only; toggle, select-all and clear change no
\* field other than selectedFiles.
C13_SelectionIsSetAlgebra ==
    /\ \A f \in MarkablePaths :
          LET s1 == TOGGLE_FILE_SELECTION(state, f)
          IN /\ TOGGLE_FILE_SELECTION(s1, f) = state
             /\ (f \in s1.selectedFiles) = (f \notin state.selectedFiles)
             /\ s1.selectedFiles \ {f} = state.selectedFiles \ {f}
             /\ [s1 EXCEPT !.selectedFiles = state.selectedFiles] = state
    /\ [SELECT_ALL(state) EXCEPT !.selectedFiles = state.selectedFiles]
            = state
    /\ [CLEAR_SELECTION(state) EXCEPT !.selectedFiles = state.selectedFiles]
            = state

\* One of the two files of /A was unmarked after both had been marked.
C13_Witness ==
    /\ state.currentPath = "/A"
    /\ Len(state.filteredEntries) = 2
    /\ state.selectedFiles = {"/A/b"}
    /\ state.clipboard = NO_CLIPBOARD

ModalModes == {"search", "command", "input", "confirm", "help", "bookmarks"}

\* C14: a step that takes the session from normal mode into search,
\* command, confirm, input, help or bookmarks mode leaves entries,
\* selectedFiles and clipboard as they were.
C14_EnteringModeKeepsData ==
    [][(state.mode = "normal" /\ state'.mode \in ModalModes) =>
            /\ state'.entries = state.entries
            /\ state'.selectedFiles = state.selectedFiles
            /\ state'.clipboard = state.clipboard]_vars

\* The text prompt is open over a listing with a marked entry and a filled
\* clipboard.
C14_Witness ==
    /\ state.mode = "input"
    /\ state.entries # << >>
    /\ state.selectedFiles # {}
    /\ state.clipboard # NO_CLIPBOARD

\* The keys of normal mode that the specification of the modes has.
NormalModeKey ==
    \/ KeySelect
    \/ KeyCopy
    \/ KeySearch
    \/ KeyCommand
    \/ KeyHelp
    \/ KeyGoToBookmark
    \/ KeyNewFile
    \/ KeyDelete

\* The handler of modal mode m acted.
ModeHandler(m) ==
    CASE m = "search" -> SearchSubmit \/ SearchCancel
      [] m = "command" ->
             InputCancel \/ \E input \in CommandInputs : CommandSubmit(input)
      [] m = "input" ->
             InputCancel \/ \E value \in InputValues : InputSubmit(value)
      [] m = "confirm" -> \E k \in ConfirmKeys : ConfirmKey(k)
      [] m = "help" -> HelpClose
      [] m = "bookmarks" -> \E k \in BookmarkKeys : BookmarksKey(k)
      [] OTHER -> FALSE

\* C15: in a modal mode no normal-mode key acts; in confirm mode a key
\* other than y, n and escape changes nothing; and a modal mode ends only by
\* a step of that mode's own handler.
C15_ModalModeOwnsInput ==
    /\ [][state.mode \in ModalModes => ~NormalModeKey]_vars
    /\ [][\A k \in ConfirmKeys \ {"y", "Y", "n", "N", "escape"} :
            ConfirmKey(k) => state' = state]_vars
    /\ [][(state.mode \in ModalModes /\ state'.mode # state.mode) =>
            ModeHandler(state.mode)]_vars

\* C16: cancelling the search (escape) leaves mode = normal, an empty
\* searchQuery and filteredEntries equal to entries.
C16_SearchCancelRestoresList ==
    [][SearchCancel =>
            /\ state'.mode = "normal"
            /\ state'.searchQuery = << >>
            /\ state'.filteredEntries = state'.entries]_vars

\* Back in normal mode on the full list with the cursor at 0 and the scroll
\* offset a search session left behind.
C16_Witness ==
    /\ state.mode = "normal"
    /\ state.searchQuery = << >>
    /\ state.entries # << >>
    /\ state.filteredEntries = state.entries
    /\ filteredIsEntries
    /\ state.selectedIndex = 0
    /\ state.scrollOffset > 0

\* Task i is a paste closure.
IsPaste(i) == tasks[i].operation \in {"copy", "cut"}

\* The destination of the next operation of paste closure i holds a file
\* other than the source.
Collides(i) ==
    LET src == Head(tasks[i].files).path
        dest == join(tasks[i].dir, Head(tasks[i].files).name)
    IN dest # src /\ disk[dest] # NULL

\* C17: a paste of copied entries does not overwrite a destination that
\* already holds a file of that name, and once the paste has been attempted
\* the clipboard is empty.
C17_PasteKeepsCollidingFile ==
    /\ [][\A i \in 1..Len(tasks) :
            (IsPaste(i) /\ Collides(i) /\ FileOperationOk(i)) =>
                LET dest == join(tasks[i].dir, Head(tasks[i].files).name)
                IN disk'[dest] = disk[dest]]_vars
    /\ [][\A i \in 1..Len(tasks) :
            (IsPaste(i) /\ TaskRefreshOk(i)) =>
                state'.clipboard = NO_CLIPBOARD]_vars

\* C18: when a file of a cut-paste fails, the files after it are still
\* moved and the clipboard is empty once the paste has been attempted.
C18_CutPasteGoesOnAfterFailure ==
    [][\A i \in 1..Len(tasks) :
            (tasks[i].operation = "cut" /\ FileOperationFail(i)) =>
                /\ state'.clipboard = NO_CLIPBOARD
                /\ (Len(tasks[i].files) > 1 => Len(tasks') = Len(tasks))]_vars

C20_TargetIsWholeSelection ==
    [][\A op \in {"copy", "cut"} :
            KeyClipboard(op) =>
                IF state.selectedFiles # {}
                THEN /\ state'.clipboard # NO_CLIPBOARD
                     /\ state'.clipboard.operation = op
                     /\ PathsOf(state'.clipboard.files) = state.selectedFiles
                ELSE IF HasSelected(state)
                THEN state'.clipboard =
                         [operation |-> op, files |-> << Selected(state) >>]
                ELSE state'.clipboard = state.clipboard]_vars

\* The paths of the entries of es are pairwise different.
DistinctPaths(es) ==
    \A i, j \in 1..Len(es) : es[i].path = es[j].path => i = j

\* Task i is a delete closure.
IsDelete(i) == tasks[i].operation = "delete"

\* C21: with confirmDelete set, the delete key on a non-empty target set
\* opens the confirm prompt and deletes nothing; a delete closure starts
\* only by answering y, and n or escape return to normal mode with no file
\* deleted; a confirmed delete calls deleteFile once per target at most: its
\* targets are pairwise different, each call takes the next target, and a
\* failed call ends the closure.
C21_DeleteNeedsConfirmation ==
    /\ [][(/\ state.config.confirmDelete
           /\ NormalInput
           /\ Len(FilesToActOn(state)) > 0
           /\ KeyDelete) =>
            /\ state'.mode = "confirm"
            /\ state'.confirmCallback.files = FilesToActOn(state)
            /\ disk' = disk
            /\ tasks' = tasks]_vars
    /\ [][Len(tasks') > Len(tasks) =>
            /\ state.mode = "confirm"
            /\ ConfirmKey("y") \/ ConfirmKey("Y")
            /\ disk' = disk]_vars
    /\ [][\A k \in {"n", "N", "escape"} :
            ConfirmKey(k) =>
                /\ state'.mode = "normal"
                /\ disk' = disk
                /\ tasks' = tasks]_vars
    /\ [][(/\ disk' # disk
           /\ \E f \in FilePaths : disk[f] # NULL /\ disk'[f] = NULL) =>
            \/ \E i \in 1..Len(tasks) : IsDelete(i) /\ FileOperationOk(i)
            \/ \E f \in RemovableFiles : ExternalRemove(f)]_vars
    /\ [](\A i \in 1..Len(tasks) :
            IsDelete(i) => DistinctPaths(tasks[i].files))
    /\ [][\A i \in 1..Len(tasks) :
            (IsDelete(i) /\ tasks' # tasks) =>
                /\ FileOperationOk(i) =>
                        \/ tasks'[i].awaits = "refresh"
                        \/ tasks'[i].files = Tail(tasks[i].files)
                /\ FileOperationFail(i) => Len(tasks') = Len(tasks) - 1]_vars

\* Both files of /A were deleted by one confirmed delete.
C21_Witness ==
    /\ state.mode = "normal"
    /\ state.message = CountMessage("Deleted", 2)
    /\ disk["/A/a"] = NULL
    /\ disk["/A/b"] = NULL
    /\ tasks = << >>

\* C22: when the deletion of one file of a confirmed delete fails, the
\* closure goes on with the files after it, and it reports the number of
\* files it deleted.
C22_DeleteGoesOnAfterFailure ==
    [][\A i \in 1..Len(tasks) :
            (IsDelete(i) /\ FileOperationFail(i)) =>
                /\ Len(tasks[i].files) > 1 =>
                        /\ Len(tasks') = Len(tasks)
                        /\ tasks'[i].files = Tail(tasks[i].files)
                /\ Len(tasks[i].files) = 1 =>
                        state'.message =
                            CountMessage("Deleted",
                                         tasks[i].count - 1)]_vars

\* The closures that make a new path: createFile, createDirectory and
\* renameFile.
MakesPath(t) == t.operation \in {"create", "mkdir", "rename"}

\* C23: rename and create, from the command line and from the prompts of
\* the keys alike, fail with a target-exists error and change nothing on
\* disk when the destination is occupied: the step in which such a closure's
\* operation runs on an occupied destination leaves the disk as it is and
\* reports an error, and no step gives an occupied path another content.
C23_OccupiedTargetRefused ==
    [][/\ \A i \in 1..Len(tasks) :
              (/\ MakesPath(tasks[i])
               /\ tasks[i].awaits = "operation"
               /\ disk[Destination(tasks[i])] # NULL
               /\ Destination(tasks[i]) # Head(tasks[i].files).path
                      \/ tasks[i].operation # "rename"
               /\ FileOperationOk(i) \/ FileOperationFail(i))
                  => /\ disk' = disk
                     /\ state'.error # NULL
       /\ \A f \in FilePaths :
              disk[f] # NULL => disk'[f] \in {disk[f], NULL}]_vars

\* The leading token of a line, and whether it is the name or an alias of
\* a command when upper and lower case are not told apart.
LeadingToken(input) == takeWord(trimStart(input))

KnownToken(token) ==
    \E i \in 1..Len(commands) :
        \E w \in commands[i].words :
            /\ Len(w) = Len(token)
            /\ \A k \in 1..Len(w) : SameLetter(w[k], token[k])

UnknownResult(r) ==
    /\ r # NO_RESULT
    /\ r.success = FALSE
    /\ \E input \in CommandInputs :
           r.error = "Unknown command: "
                         \o NameString(LowerName(LeadingToken(input)))

\* The lines whose leading token is no name or alias in any case.
UnknownLines ==
    {input \in CommandInputs :
        LeadingToken(input) # << >> /\ ~KnownToken(LeadingToken(input))}

\* C24: a line whose leading token is no command name or alias, compared
\* without regard to case, settles at once to the failure "Unknown command:
\* <token in lower case>"; no closure is started, the disk and the directory
\* reads are untouched and the only dispatches are those of
\* handleCommandSubmit itself (the error and the return to normal mode).  A
\* result of this kind comes from such a line only: a token that is a name
\* or an alias in any case is not reported unknown.
C24_UnknownCommand ==
    [][/\ state.mode = "command" =>
              \A input \in UnknownLines :
                  CommandSubmit(input) =>
                      LET error ==
                              "Unknown command: "
                                  \o NameString(
                                         LowerName(LeadingToken(input)))
                      IN /\ result' = CommandFail(error)
                         /\ state' = SET_MODE(SET_ERROR(state, error),
                                              "normal")
                         /\ UNCHANGED << showTerminal, dirReads, gitLoads,
                                         previewLoads, disk, tasks >>
       /\ (result' # result /\ UnknownResult(result')) =>
              \E input \in UnknownLines : CommandSubmit(input)]_vars

\* An upper-case line of no command was refused, in lower case.
C24_Witness ==
    /\ result = CommandFail("Unknown command: xx")
    /\ state.error = "Unknown command: xx"
    /\ state.mode = "normal"
    /\ tasks = << >>
    /\ disk = InitialDisk

\* The commands that require an argument.
ArgumentCommands == {"cd", "mkdir", "touch", "rename"}

\* The command a token names when case is not told apart.
CommandOf(token) ==
    (CHOOSE c \in {commands[i] : i \in 1..Len(commands)} :
         \E w \in c.words :
             /\ Len(w) = Len(token)
             /\ \A k \in 1..Len(w) : SameLetter(w[k], token[k])).name

\* What follows the leading token is empty or white space only.
BareCommand(input) ==
    LET rest == SubSeq(trimStart(input), Len(LeadingToken(input)) + 1,
                       Len(trimStart(input)))
    IN /\ LeadingToken(input) # << >>
       /\ KnownToken(LeadingToken(input))
       /\ CommandOf(LeadingToken(input)) \in ArgumentCommands
       /\ \A k \in 1..Len(rest) : rest[k] = " "

\* The lines of such a command without an argument, each with the usage of
\* its command.
BareLines == {input \in CommandInputs : BareCommand(input)}

UsageOf ==
    [input \in BareLines |-> UsageMessage(CommandOf(LeadingToken(input)))]

\* C26: cd, mkdir, touch or rename, under any of their names, with no
\* argument or with white space for an argument settles at once to the
\* failure "Usage: ..." of that command: no closure is started, so exists,
\* the file system primitives, navigate and refresh are never called; the
\* disk and the directory reads are untouched.
C26_UsageWithoutArgument ==
    [][state.mode = "command" =>
           \A input \in BareLines :
               CommandSubmit(input) =>
                   /\ result' = CommandFail(UsageOf[input])
                   /\ state' = SET_MODE(SET_ERROR(state, UsageOf[input]),
                                        "normal")
                   /\ UNCHANGED << showTerminal, dirReads, gitLoads,
                                   previewLoads, disk, tasks >>]_vars

\* After the start directory was listed the usage of touch was reported.
C26_Witness ==
    /\ result = CommandFail("Usage: :touch <name>")
    /\ state.error = "Usage: :touch <name>"
    /\ state.mode = "normal"
    /\ Len(state.entries) > 0
    /\ tasks = << >>
    /\ disk = InitialDisk
    /\ \A p \in Dirs : dirReads[p] = 0

\* C25: executeCommand never rejects.  Whenever the primitive a command's
\* handler awaits throws, the promise of executeCommand settles to
\* {success: false, error: <the message of the error>}, and
\* handleCommandSubmit goes on after its await: it shows the error and
\* returns to normal mode.
C25_HandlerFailureIsAResult ==
    [][/\ result' # REJECTED
       /\ \A i \in 1..Len(tasks) :
              (tasks[i].via = "command" /\ FileOperationFail(i)) =>
                  /\ result' = [success |-> FALSE, message |-> NULL,
                                error |-> OperationErrorMessage(tasks[i])]
                  /\ state'.error = OperationErrorMessage(tasks[i])
                  /\ state'.mode = "normal"]_vars

\* renameFile of the rename command threw because the file was gone, and
\* the command settled to the failure.
C25_Witness ==
    /\ result = CommandFail("ENOENT: no such file or directory, /A/a")
    /\ state.error = "ENOENT: no such file or directory, /A/a"
    /\ state.mode = "normal"
    /\ disk["/A/a"] = NULL
    /\ disk["/A/ab"] = NULL
    /\ tasks = << >>

\* The actions a table can bind.
Actions == {defaultKeybindings[i].action : i \in 1..Len(defaultKeybindings)}

\* C27: for every table and every key event, the branch the normal-mode
\* handler runs is the first action, in the order the table declares them,
\* that has a binding for the key: what getAction returns.
C27_FirstDeclaredActionRuns ==
    pressed # NO_KEY =>
        ran = getAction(KeyMatcher(keybindings), pressed.input, pressed.key)

\* A binding and a pressed key are the same (key, ctrl, meta, shift); the
\* space bar is written " " or "space".
SameTuple(binding, parsed) ==
    /\ \/ binding.key = parsed.key
       \/ {binding.key, parsed.key}
              \subseteq {<<" ">>, <<"s", "p", "a", "c", "e">>}
    /\ binding.ctrl = parsed.ctrl
    /\ binding.meta = parsed.meta
    /\ binding.shift = parsed.shift

\* Some binding the table configures for the action is the pressed key.
BoundTo(action, event) ==
    \E i \in 1..Len(keybindings) :
        /\ keybindings[i].action = action
        /\ \E k \in 1..Len(keybindings[i].keys) :
               SameTuple(parseKeyString(keybindings[i].keys[k]),
                         normalizeInkKey(event.input, event.key))

\* C28: matches(input, key, action) is true exactly when some binding of
\* the action is the pressed (key, ctrl, meta, shift), and in normal mode
\* a branch runs only for a key that is bound to its action in this sense.
C28_ExactMatching ==
    pressed # NO_KEY =>
        /\ \A action \in Actions :
               matches(KeyMatcher(keybindings), pressed.input, pressed.key,
                       action) <=> BoundTo(action, pressed)
        /\ ran # NULL => BoundTo(ran, pressed)

\* C29: an action the configured table leaves out keeps its default
\* binding: a key that the default table resolves to that action, and that
\* the configured table gives to no action, still runs it.
C29_DefaultsPerAction ==
    pressed # NO_KEY =>
        \A action \in Actions :
            (/\ \A i \in 1..Len(keybindings) :
                    keybindings[i].action # action
             /\ getAction(KeyMatcher(defaultKeybindings), pressed.input,
                          pressed.key) = action
             /\ useInput(KeyMatcher(defaultKeybindings), pressed.input,
                         pressed.key) = action
             /\ getAction(KeyMatcher(keybindings), pressed.input,
                          pressed.key) = NULL)
                => ran = action

\* s comes no later than t in the alphabet's order, letter by letter, a
\* prefix before its extensions.
RECURSIVE LexLeq(_, _)
LexLeq(s, t) ==
    \/ s = << >>
    \/ /\ t # << >>
       /\ \/ CharRank(Head(s)) < CharRank(Head(t))
          \/ /\ CharRank(Head(s)) = CharRank(Head(t))
             /\ LexLeq(Tail(s), Tail(t))

\* C30: the listing in state.entries is ordered directories first and then
\* by name without regard to case: of two adjacent entries the second is
\* not a directory after a file, and when both are of the same kind the
\* lower-cased name of the first is no later than that of the second.
C30_EntriesSorted ==
    \A i \in 1..(Len(state.entries) - 1) :
        LET a == state.entries[i]
            b == state.entries[i + 1]
        IN /\ ~(b.isDirectory /\ ~a.isDirectory)
           /\ a.isDirectory = b.isDirectory =>
                  LexLeq(LowerName(a.name), LowerName(b.name))

\* The start directory was listed after mkdir made a directory of a: the
\* readdir order b, B, ab, A, a is committed as A, a, B, ab, b.
C30_Witness ==
    /\ Len(state.entries) = 5
    /\ [i \in 1..5 |-> state.entries[i].path]
           = << "/A", "/a", "/B", "/ab", "/b" >>
    /\ [i \in 1..5 |-> state.entries[i].isDirectory]
           = << TRUE, TRUE, TRUE, FALSE, FALSE >>

\* The lines whose leading token names the help command.
HelpLines ==
    {input \in CommandInputs :
        /\ trim(input) # << >>
        /\ find(LowerName(LeadingToken(input))) # 0
        /\ commands[find(LowerName(LeadingToken(input)))].name = "help"}

\* C31: submitting help, h or ? in the command palette shows the help
\* screen: when the submission has been processed, the mode is help.
C31_HelpCommandShowsHelp ==
    [][state.mode = "command" =>
           \A input \in HelpLines :
               CommandSubmit(input) => state'.mode = "help"]_vars

\* A cursor or page move.
CursorMove == KeyDown \/ KeyUp \/ KeyPageDown \/ KeyPageUp

\* The nearest offset to scrollOffset whose window of height rows holds
\* index.
NearestOffset(scrollOffset, index, height) ==
    IF index < scrollOffset THEN index
    ELSE IF index >= scrollOffset + height THEN index - height + 1
    ELSE scrollOffset

\* C32: a cursor or page move that lands on an entry of the list leaves
\* scrollOffset alone when the new index is inside the window, and
\* otherwise sets it to the nearest offset that shows the index.
C32_MovesScrollMinimally ==
    [][(/\ NormalInput
        /\ CursorMove
        /\ HasSelected(state'))
           => state'.scrollOffset =
                  NearestOffset(state.scrollOffset, state'.selectedIndex,
                                visibleHeight)]_vars

\* C33: the loading flag is true in every state in which a directory read
\* is in flight.
C33_LoadingTracksReads ==
    Pending(dirReads) > 0 => state.loading

\* Task i is the closure of a paste, a delete, a create or a rename.
IsFileOperation(i) ==
    tasks[i].operation \in {"copy", "cut", "delete", "create", "mkdir",
                            "rename"}

\* C34: the end of a file operation does not move the session: when the
\* refresh of an operation started in another directory resolves,
\* currentPath and entries stay those of the directory the user went to.
C34_OperationEndKeepsSession ==
    [][\A i \in 1..Len(tasks) :
           (/\ IsFileOperation(i)
            /\ tasks[i].awaits = "refresh"
            /\ tasks[i].dir # state.currentPath
            /\ TaskRefreshOk(i))
               => /\ state'.currentPath = state.currentPath
                  /\ state'.entries = state.entries]_vars

\* The terminal panel: the toggle key, the shell command and the panel's
\* exit, with a cursor key to tell blocked from unblocked.
NextTerminal ==
    \/ \E p \in Dirs : ReadDirectoryOk(p)
    \/ \E p \in Dirs : GitInfoResolved(p)
    \/ \E f \in FilePaths : PreviewResolved(f)
    \/ KeyDown
    \/ KeyTerminal
    \/ TerminalExit
    \/ KeyCommand
    \/ CommandSubmit(<<"t", "e", "r", "m">>)

SpecTerminal == Init /\ [][NextTerminal]_vars

\* C37: the terminal panel is on screen exactly when state.terminalOpen is
\* true.
C37_PanelAgreesWithFlag ==
    showTerminal <=> state.terminalOpen

\* The cd lines: to a directory that reads, to one whose read fails, and to
\* a path that does not exist.
CdInputs ==
    { <<"c", "d", " ", "/", "A">>,
      <<"c", "d", " ", "/", "B">>,
      <<"g", "o", " ", "/", "x">> }

\* The cd command and the reads it starts.
NextCd ==
    \/ \E p \in Dirs : ReadDirectoryOk(p)
    \/ \E p \in Dirs : GitInfoResolved(p)
    \/ \E f \in FilePaths : PreviewResolved(f)
    \/ KeyCommand
    \/ \E input \in CdInputs : CommandSubmit(input)
    \/ \E i \in TaskIds : i <= Len(tasks) /\ ExistsResolved(i)
    \/ \E i \in TaskIds : i <= Len(tasks) /\ TaskRefreshOk(i)
    \/ \E i \in TaskIds : i <= Len(tasks) /\ TaskRefreshFail(i)

SpecCd == Init /\ [][NextCd]_vars

\* C39: when the navigation of a cd command ends, a success result means
\* currentPath is the resolved path, and a directory read that failed gives
\* a result with success false.
C39_CdSuccessMeansMoved ==
    [][\A i \in 1..Len(tasks) :
           (/\ tasks[i].operation = "cd"
            /\ tasks[i].awaits = "refresh"
            /\ TaskRefreshOk(i) \/ TaskRefreshFail(i))
               => /\ result'.success => state'.currentPath = tasks[i].dir
                  /\ TaskRefreshFail(i) => ~result'.success]_vars

\* The delete key in a session that starts with confirmDelete unset.
NextUnconfirmed ==
    \/ \E p \in Dirs : ReadDirectoryOk(p)
    \/ \E p \in Dirs : GitInfoResolved(p)
    \/ \E f \in FilePaths : PreviewResolved(f)
    \/ KeyHome
    \/ KeyDown
    \/ KeySelect
    \/ KeySelectAll
    \/ KeyDelete

SpecUnconfirmed == InitUnconfirmed /\ [][NextUnconfirmed]_vars

\* The delete key starts a delete closure on the whole target set and does
\* not ask.
DeletesAtOnce ==
    /\ KeyDelete
    /\ Len(tasks') = Len(tasks) + 1
    /\ tasks'[Len(tasks')].operation = "delete"
    /\ tasks'[Len(tasks')].files = FilesToActOn(state)
    /\ state'.mode # "confirm"

\* C40: with confirmDelete unset, the delete key on a non-empty target set
\* deletes the targets without entering confirm mode: in every state where
\* the key reaches the handler and there is a target, pressing it starts
\* the deletion of every target.
C40_DeleteWithoutConfirmation ==
    (/\ ~state.config.confirmDelete
     /\ NormalInput
     /\ Len(FilesToActOn(state)) > 0)
        => ENABLED DeletesAtOnce

(***************************************************************************)
(* C35: the hidden-files flag and the listing.                             *)
(***************************************************************************)
SetInputs ==
    { <<"s", "e", "t">>,
      <<"s", "e", "t", " ", "x">>,
      <<"s", "e", "t", " ", "h", "i", "d", "d", "e", "n", " ", "o", "n">>,
      <<"s", "e", "t", " ", "h", "i", "d", "d", "e", "n", " ", "o", "f", "f">> }

NextHidden ==
    \/ \E p \in Dirs : ReadDirectoryOk(p)
    \/ \E p \in Dirs : ReadHiddenOk(p)
    \/ \E p \in Dirs : GitInfoResolved(p)
    \/ KeyToggleHidden
    \/ KeyRefresh
    \/ KeyCommand
    \/ \E input \in SetInputs : CommandSubmit(input)
    \/ \E i \in TaskIds : i <= Len(tasks) /\ TaskRefreshOk(i)

SpecHidden == Init /\ [][NextHidden]_vars

\* The listing holds an entry whose name starts with a dot.
HasHidden(entries) == \E i \in 1..Len(entries) : isHidden(entries[i].name)

\* The only directory read in flight completes.
ReloadEnds ==
    /\ Pending(dirReads) + Pending(hiddenReads) = 1
    /\ \/ \E p \in Dirs : ReadDirectoryOk(p) \/ ReadHiddenOk(p)
       \/ \E i \in 1..Len(tasks) : TaskRefreshOk(i)

\* C35: when the reload that the toggle-hidden key or :set hidden started
\* completes, the listing holds the hidden entries of the current directory
\* exactly when state.config.showHidden is set.
C35_ListingAgreesWithHiddenFlag ==
    [][ReloadEnds
           => (HasHidden(state'.entries) <=> state'.config.showHidden)]_vars

(***************************************************************************)
(* C36: the add-bookmark prompt and the keys of normal mode.               *)
(***************************************************************************)
NextAddBookmark ==
    \/ \E p \in Dirs : ReadDirectoryOk(p)
    \/ \E p \in Dirs : GitInfoResolved(p)
    \/ \E f \in FilePaths : PreviewResolved(f)
    \/ KeyDown
    \/ KeyOpen
    \/ KeyParent
    \/ KeyCommand
    \/ InputCancel
    \/ KeyBookmark
    \/ \E name \in BookmarkNames : AddBookmarkSubmit(name)
    \/ AddBookmarkCancel

SpecAddBookmark == Init /\ [][NextAddBookmark]_vars

\* No read, load or closure is under way, so that only a key can act.
NothingUnderWay ==
    /\ Pending(dirReads) + Pending(hiddenReads) = 0
    /\ Pending(gitLoads) + Pending(previewLoads) = 0
    /\ tasks = << >>

\* C36: while the add-bookmark prompt is open a key press moves no cursor,
\* starts no navigation, changes no mode, and touches neither the clipboard
\* nor the files.
C36_AddBookmarkPromptIsModal ==
    [][(PromptOpen /\ NothingUnderWay)
           => /\ state'.selectedIndex = state.selectedIndex
              /\ state'.scrollOffset = state.scrollOffset
              /\ state'.mode = state.mode
              /\ state'.currentPath = state.currentPath
              /\ state'.clipboard = state.clipboard
              /\ << target, dirReads, hiddenReads >>'
                     = << target, dirReads, hiddenReads >>
              /\ << tasks, disk >>' = << tasks, disk >>]_vars

(***************************************************************************)
(* C38: the bookmark table of the session and the persisted one.           *)
(***************************************************************************)
BookmarkInputs ==
    { <<"b", "m">>,
      <<"b", "m", " ", "a", "d", "d", " ", "a">>,
      <<"b", "m", " ", "r", "m", " ", "a">> }

BookmarkListKeys == BookmarkKeys \cup {"k", "d"}

NextBookmarks ==
    \/ \E p \in Dirs : ReadDirectoryOk(p)
    \/ \E p \in Dirs : GitInfoResolved(p)
    \/ \E f \in FilePaths : PreviewResolved(f)
    \/ KeyBookmark
    \/ \E name \in BookmarkNames : AddBookmarkSubmit(name)
    \/ AddBookmarkCancel
    \/ KeyGoToBookmark
    \/ \E k \in BookmarkListKeys : BookmarksKey(k)
    \/ KeyCommand
    \/ \E input \in BookmarkInputs : CommandSubmit(input)

SpecBookmarks == Init /\ [][NextBookmarks]_vars

\* C38: the bookmark table of the session is the persisted one.
C38_BookmarksArePersisted == state.config.bookmarks = store.bookmarks

====
